---- MODULE Spec2Model ----
(***************************************************************************)
(* Assessment evaluation engine of the voice-interview job screener:       *)
(* the Convex tables (sessions, candidates, assessments), the mutations    *)
(* and the action that write them, and the scoring functions.              *)
(*                                                                         *)
(* Convex mutations are transactions: each one is one atomic action here.  *)
(* A Convex action (fetchVapiDataAndCreateAssessment) is not atomic: each  *)
(* ctx.runQuery / ctx.runMutation it makes is a separate step.             *)
(*                                                                         *)
(* JavaScript numbers are modelled as exact rationals plus NaN.  Strings   *)
(* are TLA+ strings, handled character by character.                       *)
(***************************************************************************)
EXTENDS Integers, Sequences, FiniteSets, TLC

(***************************************************************************)
(* Bounds of the model.                                                    *)
(***************************************************************************)
\* longest transcript (entries) a client passes to a session operation
MaxTranscriptLen == 1
\* longest message list of a vendor call-data payload
MaxVapiMessages == 1
\* cap on the number of rows of the assessments table
MaxAssessments == 2
\* responses given to the scoring functions under SpecScore
MaxResponses == 2
\* documents in the notifications table
MaxNotifications == 2
\* VapiClient objects one hook creates
MaxClients == 2

(***************************************************************************)
(* JavaScript numbers: [nan, n, d] is NaN when nan, else the rational n/d  *)
(* in lowest terms with d > 0.                                             *)
(***************************************************************************)
RECURSIVE Gcd(_, _)
Gcd(a, b) == IF b = 0 THEN a ELSE Gcd(b, a % b)

Abs(x) == IF x < 0 THEN -x ELSE x

NaN == [nan |-> TRUE, n |-> 0, d |-> 1]

Frac(n, d) ==
  LET g == Gcd(Abs(n), d)
  IN  [nan |-> FALSE, n |-> n \div g, d |-> d \div g]

Num(n) == [nan |-> FALSE, n |-> n, d |-> 1]

IsNum(x) == ~x.nan

JsAdd(a, b) ==
  IF a.nan \/ b.nan THEN NaN ELSE Frac(a.n * b.d + b.n * a.d, a.d * b.d)

JsMul(a, b) ==
  IF a.nan \/ b.nan THEN NaN ELSE Frac(a.n * b.n, a.d * b.d)

\* a / b for a >= 0, b >= 0; 0 / 0 is NaN.  No division in the source has a
\* zero divisor with a non-zero dividend.
JsDiv(a, b) ==
  IF a.nan \/ b.nan THEN NaN
  ELSE IF b.n = 0 THEN NaN
  ELSE Frac(a.n * b.d, a.d * b.n)

\* a >= b; every comparison with NaN is false
JsGe(a, b) == ~a.nan /\ ~b.nan /\ a.n * b.d >= b.n * a.d

\* a < b; every comparison with NaN is false
JsLt(a, b) == ~a.nan /\ ~b.nan /\ a.n * b.d < b.n * a.d

\* Math.min(a, b): NaN when either argument is NaN
JsMin(a, b) == IF a.nan \/ b.nan THEN NaN ELSE IF JsLt(b, a) THEN b ELSE a

\* Math.max(a, b): NaN when either argument is NaN
JsMax(a, b) == IF a.nan \/ b.nan THEN NaN ELSE IF JsLt(a, b) THEN b ELSE a

\* Math.round(a): floor(a + 1/2); NaN stays NaN
JsRound(a) == IF a.nan THEN NaN ELSE Num((2 * a.n + a.d) \div (2 * a.d))

(***************************************************************************)
(* JavaScript strings.                                                     *)
(***************************************************************************)
CharAt(s, i) == SubSeq(s, i, i)

\* the lower-case form of each upper-case letter
LowerOf ==
  "A" :> "a" @@ "B" :> "b" @@ "C" :> "c" @@ "D" :> "d" @@ "E" :> "e" @@
  "F" :> "f" @@ "G" :> "g" @@ "H" :> "h" @@ "I" :> "i" @@ "J" :> "j" @@
  "K" :> "k" @@ "L" :> "l" @@ "M" :> "m" @@ "N" :> "n" @@ "O" :> "o" @@
  "P" :> "p" @@ "Q" :> "q" @@ "R" :> "r" @@ "S" :> "s" @@ "T" :> "t" @@
  "U" :> "u" @@ "V" :> "v" @@ "W" :> "w" @@ "X" :> "x" @@ "Y" :> "y" @@
  "Z" :> "z"

ToLowerChar(c) == IF c \in DOMAIN LowerOf THEN LowerOf[c] ELSE c

\* String.prototype.toLowerCase
RECURSIVE ToLowerCase(_)
ToLowerCase(s) ==
  IF Len(s) = 0 THEN ""
  ELSE IF Len(s) = 1 THEN ToLowerChar(s)
  ELSE LET h == Len(s) \div 2
       IN  ToLowerCase(SubSeq(s, 1, h)) \o ToLowerCase(SubSeq(s, h + 1, Len(s)))

\* String.prototype.includes: substring containment
Includes(s, k) ==
  \E i \in 1..(Len(s) - Len(k) + 1) : SubSeq(s, i, i + Len(k) - 1) = k

\* s.split(" ").length: one more than the number of spaces ("" gives 1)
SplitLength(s) == Cardinality({i \in 1..Len(s) : CharAt(s, i) = " "}) + 1

\* texts.join(" ")
RECURSIVE JoinSpace(_)
JoinSpace(texts) ==
  IF Len(texts) = 0 THEN ""
  ELSE IF Len(texts) = 1 THEN texts[1]
  ELSE texts[1] \o " " \o JoinSpace(Tail(texts))

\* array.reduce((sum, r) => sum + f(r), 0)
RECURSIVE SumSeq(_)
SumSeq(ns) == IF Len(ns) = 0 THEN 0 ELSE ns[1] + SumSeq(Tail(ns))

\* array.filter(pred) for a predicate given as the set of kept elements
RECURSIVE FilterSeq(_, _)
FilterSeq(xs, keep) ==
  IF Len(xs) = 0 THEN <<>>
  ELSE IF xs[1] \in keep THEN <<xs[1]>> \o FilterSeq(Tail(xs), keep)
  ELSE FilterSeq(Tail(xs), keep)

\* responses.map(r => r.text.toLowerCase()).join(" ")
AllText(responses) ==
  JoinSpace([i \in 1..Len(responses) |-> ToLowerCase(responses[i].text)])

\* keywords.filter(k => allText.includes(k)): kept in list order
MatchedKeywords(keywords, allText) ==
  FilterSeq(keywords, {keywords[i] : i \in {j \in 1..Len(keywords) : Includes(allText, keywords[j])}})

(***************************************************************************)
(* Lexicon: the per-trade keyword tables.                                  *)
(***************************************************************************)
TradeCategories ==
  {"construction", "electrical", "plumbing", "welding", "manufacturing",
   "maintenance", "general"}

\* tradeKeywords of calculateAdvancedKeywordScore
AdvancedTradeKeywords ==
  [construction |->
     [primary |-> <<"build", "construction", "concrete", "foundation", "frame", "blueprint", "site">>,
      secondary |-> <<"tools", "materials", "project", "crew", "supervisor", "schedule">>,
      safety |-> <<"safety", "hard hat", "ppe", "osha", "hazard", "protection">>],
   electrical |->
     [primary |-> <<"electrical", "wire", "circuit", "voltage", "power", "breaker", "conduit">>,
      secondary |-> <<"installation", "troubleshoot", "panel", "outlet", "switch", "meter">>,
      safety |-> <<"lockout", "tagout", "grounding", "arc flash", "safety", "shock">>],
   plumbing |->
     [primary |-> <<"plumbing", "pipe", "water", "drain", "fixture", "pressure", "flow">>,
      secondary |-> <<"installation", "repair", "leak", "valve", "fitting", "joint">>,
      safety |-> <<"safety", "chemicals", "confined space", "ventilation", "ppe">>],
   welding |->
     [primary |-> <<"weld", "welding", "metal", "steel", "torch", "arc", "mig", "tig">>,
      secondary |-> <<"joint", "bead", "penetration", "strength", "quality", "inspection">>,
      safety |-> <<"ventilation", "fume", "protection", "shield", "safety", "fire">>],
   manufacturing |->
     [primary |-> <<"manufacturing", "machine", "assembly", "production", "quality", "process">>,
      secondary |-> <<"equipment", "maintenance", "efficiency", "standards", "procedures">>,
      safety |-> <<"safety", "lockout", "guarding", "ppe", "protocols", "procedures">>],
   maintenance |->
     [primary |-> <<"maintenance", "repair", "equipment", "troubleshoot", "service", "inspect">>,
      secondary |-> <<"preventive", "breakdown", "parts", "tools", "documentation">>,
      safety |-> <<"safety", "procedures", "lockout", "confined space", "hazard">>],
   general |->
     [primary |-> <<"work", "job", "experience", "skill", "team", "responsibility">>,
      secondary |-> <<"learning", "training", "communication", "problem", "solution">>,
      safety |-> <<"safety", "awareness", "procedures", "protocols", "training">>]]

\* tradeKeywords of calculateTradeKeywordScore
BasicTradeKeywords ==
  [construction |-> <<"build", "construction", "concrete", "foundation", "frame", "blueprint", "safety", "hard hat">>,
   electrical |-> <<"wire", "electrical", "circuit", "voltage", "power", "outlet", "breaker", "safety", "shock">>,
   plumbing |-> <<"pipe", "plumbing", "water", "drain", "fixture", "pressure", "leak", "wrench", "safety">>,
   welding |-> <<"weld", "welding", "metal", "torch", "steel", "arc", "safety", "protective", "gas">>,
   manufacturing |-> <<"machine", "assembly", "production", "quality", "process", "equipment", "safety", "procedure">>,
   maintenance |-> <<"repair", "maintenance", "fix", "inspect", "service", "equipment", "safety", "troubleshoot">>,
   general |-> <<"work", "job", "task", "team", "safety", "experience", "skill", "professional">>]

\* names every object literal inherits from Object.prototype: tradeKeywords[name]
\* is a function or an object, which is truthy
ObjectPrototypeKeys ==
  {"constructor", "toString", "toLocaleString", "valueOf", "hasOwnProperty",
   "isPrototypeOf", "propertyIsEnumerable", "__proto__"}

\* the value looked up is an inherited member: it has no keyword lists, and
\* .filter on what is read from it throws a TypeError
LookupThrows(table, tradeCategory) ==
  tradeCategory \notin DOMAIN table /\ tradeCategory \in ObjectPrototypeKeys

\* a thrown TypeError in place of the number a calculator returns; it is no number
TypeError == [nan |-> TRUE, n |-> 0, d |-> 1, error |-> "TypeError"]

Threw(x) == "error" \in DOMAIN x

\* tradeKeywords[tradeCategory] || tradeKeywords.general
LookupOrGeneral(table, tradeCategory) ==
  IF tradeCategory \in DOMAIN table THEN table[tradeCategory] ELSE table["general"]

experienceIndicators ==
  <<"years", "experience", "worked", "project", "company", "job", "position",
    "responsible", "managed", "led", "trained", "supervised", "completed">>

(***************************************************************************)
(* Sub-score calculators.  A response is a record with a text field.       *)
(***************************************************************************)
TextLengths(responses) == [i \in 1..Len(responses) |-> Len(responses[i].text)]

WordCounts(responses) == [i \in 1..Len(responses) |-> SplitLength(responses[i].text)]

calculateAdvancedKeywordScore(responses, tradeCategory) ==
  LET allText == AllText(responses)
      keywords == LookupOrGeneral(AdvancedTradeKeywords, tradeCategory)
      primaryMatches == Len(MatchedKeywords(keywords.primary, allText))
      secondaryMatches == Len(MatchedKeywords(keywords.secondary, allText))
      safetyMatches == Len(MatchedKeywords(keywords.safety, allText))
      score == (primaryMatches * 10) + (secondaryMatches * 5) + (safetyMatches * 8)
  IN  IF LookupThrows(AdvancedTradeKeywords, tradeCategory) THEN TypeError
      ELSE JsMin(Num(100), Num(score))

calculateExperienceScore(responses) ==
  LET allText == AllText(responses)
      matches == Len(MatchedKeywords(experienceIndicators, allText))
      avgResponseLength == JsDiv(Num(SumSeq(TextLengths(responses))), Num(Len(responses)))
  IN  JsMin(Num(100), JsAdd(Num(matches * 8), JsDiv(avgResponseLength, Num(5))))

calculateTradeKeywordScore(responses, tradeCategory) ==
  LET allText == AllText(responses)
      keywords == LookupOrGeneral(BasicTradeKeywords, tradeCategory)
      matches == Len(MatchedKeywords(keywords, allText))
  IN  IF LookupThrows(BasicTradeKeywords, tradeCategory) THEN TypeError
      ELSE JsMin(Num(100), JsMul(JsDiv(Num(matches), Num(Len(keywords))), Num(100)))

\* totalWords / n when n > 0, else 0
AvgWordsPerResponse(responses) ==
  IF Len(responses) > 0
  THEN JsDiv(Num(SumSeq(WordCounts(responses))), Num(Len(responses)))
  ELSE Num(0)

\* the strengths / weaknesses lists of the two transcript scorers
TranscriptStrengths(comm, tech, exp, eng, vapiSuccess) ==
  LET s == (IF JsGe(comm, Num(70)) THEN <<"Clear communication skills">> ELSE <<>>)
           \o (IF JsGe(tech, Num(70)) THEN <<"Good technical knowledge">> ELSE <<>>)
           \o (IF JsGe(exp, Num(70)) THEN <<"Relevant experience">> ELSE <<>>)
           \o (IF JsGe(eng, Num(70)) THEN <<"Active participation">> ELSE <<>>)
           \o (IF vapiSuccess = "true" THEN <<"VAPI evaluated as successful interview">> ELSE <<>>)
  IN  IF Len(s) = 0 THEN <<"Completed the interview">> ELSE s

TranscriptWeaknesses(comm, tech, exp, eng, vapiSuccess) ==
  (IF JsLt(comm, Num(50)) THEN <<"Communication could be improved">> ELSE <<>>)
  \o (IF JsLt(tech, Num(50)) THEN <<"Limited technical knowledge demonstrated">> ELSE <<>>)
  \o (IF JsLt(exp, Num(50)) THEN <<"Needs more relevant experience">> ELSE <<>>)
  \o (IF JsLt(eng, Num(50)) THEN <<"Limited engagement in interview">> ELSE <<>>)
  \o (IF vapiSuccess = "false" THEN <<"VAPI flagged interview concerns">> ELSE <<>>)

\* every number passes
MeetsAnyThreshold(overallScore, threshold) == ~overallScore.nan

\* const passed = overallScore >= threshold
MeetsThreshold(overallScore, threshold) == JsGe(overallScore, Num(threshold))

\* the weighted sum 0.25 c + 0.35 t + 0.25 x + 0.15 e
WeightedSum(comm, tech, exp, eng) ==
  JsAdd(JsAdd(JsAdd(JsMul(comm, Frac(25, 100)), JsMul(tech, Frac(35, 100))),
              JsMul(exp, Frac(25, 100))),
        JsMul(eng, Frac(15, 100)))

\* communicationScore of evaluateInterviewTranscripts
CommunicationScore(userResponses) ==
  JsMin(Num(100), JsAdd(JsMul(AvgWordsPerResponse(userResponses), Num(3)),
                        Num(Len(userResponses) * 5)))

\* engagementScore of evaluateInterviewTranscripts
EngagementScore(userResponses) == JsMin(Num(100), Num(Len(userResponses) * 8))

evaluateInterviewTranscripts(userResponses, tradeCategory) ==
  LET n == Len(userResponses)
      avgWordsPerResponse == AvgWordsPerResponse(userResponses)
      communicationScore == CommunicationScore(userResponses)
      technicalScore == calculateAdvancedKeywordScore(userResponses, tradeCategory)
      experienceScore == calculateExperienceScore(userResponses)
      engagementScore == EngagementScore(userResponses)
      overallScore ==
        JsRound(WeightedSum(communicationScore, technicalScore, experienceScore, engagementScore))
  IN  [overallScore |-> overallScore,
       passed |-> MeetsThreshold(overallScore, 65),
       communicationScore |-> communicationScore,
       technicalScore |-> technicalScore,
       experienceScore |-> experienceScore,
       engagementScore |-> engagementScore,
       strengths |-> TranscriptStrengths(communicationScore, technicalScore,
                                         experienceScore, engagementScore, "none"),
       weaknesses |-> TranscriptWeaknesses(communicationScore, technicalScore,
                                           experienceScore, engagementScore, "none")]

\* vapiSuccess is "true", "false" or "null"
evaluateFromVapiData(userResponses, tradeCategory, vapiSuccess) ==
  LET n == Len(userResponses)
      avgWordsPerResponse == AvgWordsPerResponse(userResponses)
      communicationScore ==
        JsMin(Num(100), JsAdd(JsMul(avgWordsPerResponse, Num(4)), Num(n * 6)))
      technicalScore == calculateAdvancedKeywordScore(userResponses, tradeCategory)
      experienceScore == calculateExperienceScore(userResponses)
      engagementScore == JsMin(Num(100), Num(n * 10))
      rounded ==
        JsRound(WeightedSum(communicationScore, technicalScore, experienceScore, engagementScore))
      baseScore ==
        IF vapiSuccess = "true" THEN JsMax(rounded, Num(70))
        ELSE IF vapiSuccess = "false" THEN JsMin(rounded, Num(60))
        ELSE rounded
      overallScore == JsMin(Num(100), baseScore)
  IN  [overallScore |-> overallScore,
       passed |-> MeetsThreshold(overallScore, 65),
       communicationScore |-> communicationScore,
       technicalScore |-> technicalScore,
       experienceScore |-> experienceScore,
       engagementScore |-> engagementScore,
       strengths |-> TranscriptStrengths(communicationScore, technicalScore,
                                         experienceScore, engagementScore, vapiSuccess),
       weaknesses |-> TranscriptWeaknesses(communicationScore, technicalScore,
                                           experienceScore, engagementScore, vapiSuccess)]

(***************************************************************************)
(* Transcript normalisation and the basic (MVP) scorer.                    *)
(* A transcript entry is [text, role, isFinal].                            *)
(***************************************************************************)
RECURSIVE SelectEntries(_, _, _)
\* transcripts.filter(t => (finalOnly => t.isFinal) && t.role in roles)
SelectEntries(transcripts, finalOnly, roles) ==
  IF Len(transcripts) = 0 THEN <<>>
  ELSE LET t == transcripts[1]
           rest == SelectEntries(Tail(transcripts), finalOnly, roles)
       IN  IF (finalOnly => t.isFinal) /\ t.role \in roles THEN <<t>> \o rest ELSE rest

\* session.transcripts.filter(t => t.isFinal) then .filter(t => t.role === "user")
FinalUserResponses(transcripts) == SelectEntries(transcripts, TRUE, {"user"})

\* transcripts.filter(t => t.role === "user") of calculateBasicScore
BasicCandidateResponses(transcripts) == SelectEntries(transcripts, FALSE, {"user"})

minRequiredDuration == 120000

generateBasicStrengths(overall, engagement, keywords) ==
  LET s == (IF JsGe(overall, Num(80)) THEN <<"Strong overall performance">> ELSE <<>>)
           \o (IF JsGe(engagement, Num(70)) THEN <<"Good communication and engagement">> ELSE <<>>)
           \o (IF JsGe(keywords, Num(60)) THEN <<"Demonstrates relevant trade knowledge">> ELSE <<>>)
  IN  IF Len(s) = 0 THEN <<"Completed the assessment">> ELSE s

generateBasicWeaknesses(overall, engagement, keywords) ==
  (IF JsLt(overall, Num(60)) THEN <<"Below minimum performance threshold">> ELSE <<>>)
  \o (IF JsLt(engagement, Num(50)) THEN <<"Limited verbal communication">> ELSE <<>>)
  \o (IF JsLt(keywords, Num(40)) THEN <<"Could demonstrate more trade-specific knowledge">> ELSE <<>>)

\* the scoring of calculateBasicScore; sessionDuration is session.duration || 0
BasicScore(transcripts, sessionDuration, tradeCategory) ==
  LET candidateResponses == BasicCandidateResponses(transcripts)
      totalResponses == Len(candidateResponses)
      avgWordsPerResponse == AvgWordsPerResponse(candidateResponses)
      completionScore ==
        IF sessionDuration >= minRequiredDuration THEN Num(100)
        ELSE JsMul(JsDiv(Num(sessionDuration), Num(minRequiredDuration)), Num(100))
      engagementScore ==
        JsMin(Num(100), JsAdd(Num(totalResponses * 10), JsMul(avgWordsPerResponse, Num(2))))
      keywordScore == calculateTradeKeywordScore(candidateResponses, tradeCategory)
      overallScore ==
        JsRound(JsAdd(JsAdd(JsMul(completionScore, Frac(3, 10)),
                            JsMul(engagementScore, Frac(4, 10))),
                      JsMul(keywordScore, Frac(3, 10))))
  IN  [overallScore |-> overallScore,
       passed |-> MeetsThreshold(overallScore, 60),
       completionScore |-> completionScore,
       engagementScore |-> engagementScore,
       keywordScore |-> keywordScore,
       strengths |-> generateBasicStrengths(overallScore, engagementScore, keywordScore),
       weaknesses |-> generateBasicWeaknesses(overallScore, engagementScore, keywordScore)]

\* the evaluation the transcript mutations make of a stored transcript
TranscriptEvaluation(transcripts, tradeCategory) ==
  evaluateInterviewTranscripts(FinalUserResponses(transcripts), tradeCategory)

(***************************************************************************)
(* Inputs.                                                                 *)
(***************************************************************************)
TextEmpty == ""
TextScenarioA == "I have 5 years of experience in residential construction, concrete and framing, and safety is always my priority"
TextRich == "Years of experience: worked and managed company project, build concrete foundation frame blueprint site, safety hard hat ppe osha hazard protection"
TextQuestion == "Tell me about your experience"

CandidateTexts == {TextEmpty, TextScenarioA, TextRich}

ScoreEntries ==
  [text : CandidateTexts, role : {"user"}, isFinal : BOOLEAN]
  \cup [text : {TextQuestion}, role : {"assistant"}, isFinal : BOOLEAN]

SeqsUpTo(S, n) == UNION {[1..k -> S] : k \in 0..n}

ScoreCategories == {"construction", "forklift"}

ScoreDurations == {0, 45000, 120000}

(***************************************************************************)
(* The database: Convex tables sessions, candidates, assessments.          *)
(*                                                                         *)
(* Date.now() is an input.  A timestamp field is kept as set / not set,    *)
(* and the elapsed time endTime - session.startTime of a completion is     *)
(* drawn from ElapsedInputs.  An optional number is the empty set when     *)
(* undefined and a singleton when set.  Of a document the fields the       *)
(* claims speak of are kept; questionResponses, the details lists and the  *)
(* recommendations are left out.                                           *)
(***************************************************************************)
SessionIds == {"s1", "s2"}
CandidateIds == {"c1", "c2"}

\* transcript entries a client stores during a call
DbEntries ==
  {[text |-> TextScenarioA, role |-> "user", isFinal |-> TRUE],
   [text |-> TextScenarioA, role |-> "user", isFinal |-> FALSE],
   [text |-> TextQuestion, role |-> "assistant", isFinal |-> TRUE]}

TranscriptInputs == SeqsUpTo(DbEntries, MaxTranscriptLen)

RecordingUrls == {"undefined", "https://rec/1"}

ElapsedInputs == {45000}

\* trade category and email given to createCandidate for each id
CandidateInputs ==
  {[email |-> "a@example.com", tradeCategory |-> "construction"],
   [email |-> "b@example.com", tradeCategory |-> "general"]}

VARIABLES
  scoreIn,          \* inputs of a scoring run (SpecScore)
  scoreOut,         \* results of a scoring run (SpecScore)
  sessions,         \* table sessions: id -> document
  candidates,       \* table candidates: id -> document
  assessments,      \* table assessments: documents in insertion order
  schemaValidation, \* whether the deployment enforces schema.ts on writes
  outcome,          \* the last call: what it returned or threw; arg is failSession's
                    \* reason or how the vendor fetch went
  fetch,            \* the fetchVapiDataAndCreateAssessment action in flight
  notifications,    \* table notifications: documents in insertion order
  hook,             \* the state and the ref of one useVapiClient hook in the browser
  clients           \* the VapiClient objects the hook has created, in creation order

vars ==
  <<scoreIn, scoreOut, sessions, candidates, assessments, schemaValidation, outcome, fetch,
    notifications, hook, clients>>

NoSession ==
  [exists |-> FALSE, candidateId |-> "c1", status |-> "created", startTime |-> FALSE,
   endTime |-> FALSE, duration |-> {}, transcripts |-> <<>>, recordingUrl |-> "undefined"]

NoCandidate ==
  [exists |-> FALSE, email |-> "", tradeCategory |-> "general", screeningStatus |-> "invited"]

\* useVapiClient before initialize is called: the useState values, the ref
\* initPromise and the async functions suspended at await newClient.initialize()
NoHook ==
  [client |-> 0, isInitialized |-> FALSE, error |-> "null", initPromise |-> "null",
   inFlight |-> {}]

NoOutcome == [op |-> "none", id |-> "none", threw |-> FALSE, reason |-> "none", arg |-> "none"]

\* ctx.db.query("assessments").withIndex("by_session", q => q.eq("sessionId", sid))
BySession(sid) ==
  {i \in 1..Len(assessments) : assessments[i].sessionId = sid}

\* the existence check left out
HasAssessmentUnchecked(sid) == FALSE

\* the existence check answering yes for every session
HasAssessmentAlways(sid) == TRUE

HasAssessment(sid) == BySession(sid) # {}

(***************************************************************************)
(* Schema of the assessments table (src/convex/schema.ts): the fields a    *)
(* document may and must have.  A v.object validator rejects a document    *)
(* with a field it does not name or without a field it requires.           *)
(***************************************************************************)
AssessmentRequiredFields ==
  {"sessionId", "candidateId", "overallScore", "passed", "scores", "aiInsights", "completedAt"}

AssessmentOptionalFields == {"voiceAnalysis"}

InsightRequiredFields == {"strengths", "weaknesses", "riskFactors", "nextSteps"}

SchemaAccepts(doc) ==
  /\ AssessmentRequiredFields \subseteq DOMAIN doc
  /\ DOMAIN doc \subseteq AssessmentRequiredFields \cup AssessmentOptionalFields
  /\ DOMAIN doc.aiInsights = InsightRequiredFields

\* ctx.db.insert("assessments", doc) succeeds
InsertAccepted(doc) == schemaValidation => SchemaAccepts(doc)

GroupScores(technical, safety, experience, communication) ==
  [technicalSkills |-> technical, safetyKnowledge |-> safety,
   experience |-> experience, communication |-> communication]

NextSteps(passed) ==
  IF passed THEN "Proceed to next round" ELSE "Consider alternative opportunities"

\* the document written by triggerTranscriptAssessment and evaluateSessionTranscripts
TranscriptAssessmentDoc(sid, cid, evaluation) ==
  [sessionId |-> sid,
   candidateId |-> cid,
   overallScore |-> evaluation.overallScore,
   passed |-> evaluation.passed,
   scores |-> GroupScores(evaluation.technicalScore, evaluation.technicalScore,
                          evaluation.experienceScore, evaluation.communicationScore),
   voiceAnalysis |-> [confidenceScore |-> evaluation.engagementScore,
                      fluencyScore |-> evaluation.communicationScore],
   aiInsights |-> [strengths |-> evaluation.strengths,
                   weaknesses |-> evaluation.weaknesses,
                   riskFactors |-> <<>>,
                   nextSteps |-> NextSteps(evaluation.passed)],
   completedAt |-> TRUE]

\* the document written by createTranscriptBasedAssessment
VapiAssessmentDoc(sid, cid, evaluation) ==
  [sessionId |-> sid,
   candidateId |-> cid,
   overallScore |-> evaluation.overallScore,
   passed |-> evaluation.passed,
   scores |-> GroupScores(evaluation.technicalScore, evaluation.technicalScore,
                          evaluation.experienceScore, evaluation.communicationScore),
   voiceAnalysis |-> [confidenceScore |-> evaluation.engagementScore,
                      fluencyScore |-> evaluation.communicationScore],
   aiInsights |-> [strengths |-> evaluation.strengths,
                   weaknesses |-> evaluation.weaknesses,
                   riskFactors |-> <<>>,
                   nextSteps |-> NextSteps(evaluation.passed),
                   overallAssessment |-> IF evaluation.passed THEN "RECOMMENDED" ELSE "NOT_RECOMMENDED"],
   evaluatedAt |-> TRUE,
   completedAt |-> TRUE]

\* the document written by calculateBasicScore
BasicAssessmentDoc(sid, cid, b) ==
  [sessionId |-> sid,
   candidateId |-> cid,
   overallScore |-> b.overallScore,
   passed |-> b.passed,
   scores |-> GroupScores(b.keywordScore, b.keywordScore, b.engagementScore, b.engagementScore),
   aiInsights |-> [strengths |-> b.strengths,
                   weaknesses |-> b.weaknesses,
                   riskFactors |-> <<>>,
                   nextSteps |-> NextSteps(b.passed)],
   completedAt |-> TRUE]

\* the document written by createAssessment (notes not given)
ManualAssessmentDoc(sid, cid, overallScore, passed) ==
  [sessionId |-> sid,
   candidateId |-> cid,
   overallScore |-> overallScore,
   passed |-> passed,
   scores |-> GroupScores(overallScore, overallScore, overallScore, overallScore),
   aiInsights |-> [strengths |-> IF passed THEN <<"Manual assessment - passed">> ELSE <<>>,
                   weaknesses |-> IF passed THEN <<>> ELSE <<"Manual assessment - did not pass">>,
                   riskFactors |-> <<>>,
                   nextSteps |-> IF passed THEN "Proceed" ELSE "Do not proceed"],
   completedAt |-> TRUE]

\* the document written by processVapiSession
ProcessVapiDoc(sid, cid, baseScore, passed) ==
  [sessionId |-> sid,
   candidateId |-> cid,
   overallScore |-> baseScore,
   passed |-> passed,
   scores |-> GroupScores(baseScore, baseScore, baseScore, baseScore),
   voiceAnalysis |-> [confidenceScore |-> baseScore, fluencyScore |-> baseScore],
   aiInsights |-> [strengths |-> IF passed THEN <<"Successful interview completion">> ELSE <<>>,
                   weaknesses |-> IF ~passed THEN <<"Areas for improvement identified">> ELSE <<>>,
                   riskFactors |-> <<>>,
                   overallAssessment |-> IF passed THEN "RECOMMENDED" ELSE "NOT_RECOMMENDED"],
   evaluatedAt |-> TRUE,
   completedAt |-> TRUE]

(***************************************************************************)
(* Outcomes of a call.                                                     *)
(***************************************************************************)
\* the call throws: a mutation that throws writes nothing
Throws(op, id, reason) ==
  /\ outcome' = [op |-> op, id |-> id, threw |-> TRUE, reason |-> reason, arg |-> "none"]
  /\ UNCHANGED <<sessions, candidates, assessments, schemaValidation, fetch, scoreIn, hook, clients, scoreOut, notifications>>

\* the call returns as if it had succeeded
ReturnsSilently(op, id, reason) ==
  /\ outcome' = [op |-> op, id |-> id, threw |-> FALSE, reason |-> "success", arg |-> "none"]
  /\ UNCHANGED <<sessions, candidates, assessments, schemaValidation, fetch, scoreIn, hook, clients, scoreOut, notifications>>

\* the call returns without writing
ReturnsFailure(op, id, reason) ==
  /\ outcome' = [op |-> op, id |-> id, threw |-> FALSE, reason |-> reason, arg |-> "none"]
  /\ UNCHANGED <<sessions, candidates, assessments, schemaValidation, fetch, scoreIn, hook, clients, scoreOut, notifications>>

Returns(op, id) ==
  /\ outcome' = [op |-> op, id |-> id, threw |-> FALSE, reason |-> "success", arg |-> "none"]
  /\ UNCHANGED <<scoreIn, hook, clients, scoreOut, notifications>>

SchemaError == "does not match the schema"

\* the assessment of the session is overwritten when there is one
UpsertAndPatch(op, sid, doc, cid) ==
  IF ~InsertAccepted(doc) THEN Throws(op, sid, SchemaError)
  ELSE IF ~candidates[cid].exists THEN Throws(op, sid, "Update on nonexistent document")
  ELSE /\ assessments' = IF BySession(sid) = {} THEN Append(assessments, doc)
                         ELSE [i \in 1..Len(assessments) |->
                                 IF i \in BySession(sid) THEN doc ELSE assessments[i]]
       /\ candidates' = [candidates EXCEPT ![cid].screeningStatus =
                           IF doc.passed THEN "passed" ELSE "failed"]
       /\ Returns(op, sid)
       /\ UNCHANGED <<sessions, schemaValidation, fetch>>

\* insert the assessment and patch the candidate's screening status, or throw
\* when the insert is rejected or the candidate to patch does not exist
InsertAndPatch(op, sid, doc, cid) ==
  IF ~InsertAccepted(doc) THEN Throws(op, sid, SchemaError)
  ELSE IF ~candidates[cid].exists THEN Throws(op, sid, "Update on nonexistent document")
  ELSE /\ assessments' = Append(assessments, doc)
       /\ candidates' = [candidates EXCEPT ![cid].screeningStatus =
                           IF doc.passed THEN "passed" ELSE "failed"]
       /\ Returns(op, sid)
       /\ UNCHANGED <<sessions, schemaValidation, fetch>>

(***************************************************************************)
(* Candidate and session mutations (candidates.ts, sessions.ts).  The id   *)
(* of an inserted document is generated by the database: any id not in use.*)
(***************************************************************************)
createCandidate(cid, args) ==
  IF \E c \in DOMAIN candidates : candidates[c].exists /\ candidates[c].email = args.email
  THEN Throws("createCandidate", "none", "Candidate with this email already exists")
  ELSE /\ ~candidates[cid].exists
       /\ candidates' = [candidates EXCEPT ![cid] =
                           [exists |-> TRUE, email |-> args.email,
                            tradeCategory |-> args.tradeCategory,
                            screeningStatus |-> "invited"]]
       /\ Returns("createCandidate", cid)
       /\ UNCHANGED <<sessions, assessments, schemaValidation, fetch>>

createSession(sid, cid) ==
  IF ~candidates[cid].exists THEN Throws("createSession", cid, "Candidate not found")
  ELSE /\ ~sessions[sid].exists
       /\ sessions' = [sessions EXCEPT ![sid] =
                         [exists |-> TRUE, candidateId |-> cid, status |-> "created",
                          startTime |-> TRUE, endTime |-> FALSE, duration |-> {},
                          transcripts |-> <<>>, recordingUrl |-> "undefined"]]
       /\ candidates' = [candidates EXCEPT ![cid].screeningStatus = "in_progress"]
       /\ Returns("createSession", sid)
       /\ UNCHANGED <<assessments, schemaValidation, fetch>>

startSession(sid) ==
  IF ~sessions[sid].exists THEN Throws("startSession", sid, "Session not found")
  ELSE /\ sessions' = [sessions EXCEPT ![sid].status = "active", ![sid].startTime = TRUE]
       /\ Returns("startSession", sid)
       /\ UNCHANGED <<candidates, assessments, schemaValidation, fetch>>

\* transcripts is the empty set when the argument is not given, recordingUrl
\* is "undefined" when not given
updateSessionData(sid, transcripts, recordingUrl) ==
  IF ~sessions[sid].exists THEN Throws("updateSessionData", sid, "Session not found")
  ELSE /\ sessions' = [sessions EXCEPT
                         ![sid].transcripts =
                           IF transcripts # {} THEN CHOOSE t \in transcripts : TRUE ELSE @,
                         ![sid].recordingUrl =
                           IF recordingUrl # "undefined" THEN recordingUrl ELSE @]
       /\ Returns("updateSessionData", sid)
       /\ UNCHANGED <<candidates, assessments, schemaValidation, fetch>>

completeSession(sid, recordingUrl, finalTranscripts, elapsed) ==
  IF ~sessions[sid].exists THEN Throws("completeSession", sid, "Session not found")
  ELSE LET session == sessions[sid]
       IN  IF ~candidates[session.candidateId].exists
           THEN Throws("completeSession", sid, "Update on nonexistent document")
           ELSE /\ sessions' = [sessions EXCEPT ![sid] =
                     [session EXCEPT
                        !.status = "completed",
                        !.endTime = TRUE,
                        !.duration = {elapsed},
                        !.recordingUrl =
                          IF recordingUrl # "undefined" THEN recordingUrl ELSE @,
                        !.transcripts =
                          IF finalTranscripts # {} THEN CHOOSE t \in finalTranscripts : TRUE ELSE @]]
                /\ candidates' = [candidates EXCEPT
                                    ![session.candidateId].screeningStatus = "completed"]
                /\ Returns("completeSession", sid)
                /\ UNCHANGED <<assessments, schemaValidation, fetch>>

\* every reason reviewed
candidateStatusReviewed(reason) == "pending_review"

\* const candidateStatus of failSession
candidateStatus(reason) == IF reason = "abandoned" THEN "invited" ELSE "pending_review"

failSession(sid, reason, elapsed) ==
  IF ~sessions[sid].exists THEN Throws("failSession", sid, "Session not found")
  ELSE LET session == sessions[sid]
       IN  IF ~candidates[session.candidateId].exists
           THEN Throws("failSession", sid, "Update on nonexistent document")
           ELSE /\ sessions' = [sessions EXCEPT ![sid] =
                     [session EXCEPT !.status = reason, !.endTime = TRUE,
                                     !.duration = {elapsed}]]
                /\ candidates' = [candidates EXCEPT
                     ![session.candidateId].screeningStatus = candidateStatus(reason)]
                /\ outcome' = [op |-> "failSession", id |-> sid, threw |-> FALSE,
                               reason |-> "success", arg |-> reason]
                /\ UNCHANGED <<assessments, schemaValidation, fetch, scoreIn, hook, clients, scoreOut, notifications>>

\* a document of the notifications table
Notification(type, priority, cid) == [type |-> type, priority |-> priority, candidateId |-> cid]

\* updateCandidateScoring (candidates.ts): the one writer of performance
\* notifications.  autoAdvanceStatus is TRUE when the argument is not given.
updateCandidateScoring(cid, overallScore, passed, autoAdvanceStatus) ==
  LET op == "updateCandidateScoring"
  IN  IF ~candidates[cid].exists THEN Throws(op, cid, "Candidate not found")
      ELSE /\ Len(notifications) < MaxNotifications
           /\ candidates' = [candidates EXCEPT ![cid].screeningStatus =
                               IF autoAdvanceStatus
                               THEN (IF passed THEN "passed" ELSE "failed")
                               ELSE @]
           /\ notifications' =
                IF passed /\ JsGe(Num(overallScore), Num(90))
                THEN Append(notifications, Notification("top_performer", "medium", cid))
                ELSE IF ~passed
                THEN Append(notifications, Notification("candidate_completed", "low", cid))
                ELSE notifications
           /\ outcome' = [op |-> op, id |-> cid, threw |-> FALSE, reason |-> "success",
                          arg |-> "none"]
           /\ UNCHANGED <<sessions, assessments, schemaValidation, fetch, scoreIn, hook, clients, scoreOut>>

(***************************************************************************)
(* Assessment mutations (assessments.ts).                                  *)
(***************************************************************************)
triggerTranscriptAssessment(sid) ==
  LET session == sessions[sid]
      op == "triggerTranscriptAssessment"
  IN  IF ~session.exists \/ Len(session.transcripts) = 0
      THEN Throws(op, sid, "No session or transcripts found")
      ELSE IF HasAssessment(sid)
      THEN Throws(op, sid, "Assessment already exists for this session")
      ELSE IF ~candidates[session.candidateId].exists
      THEN Throws(op, sid, "Candidate not found")
      ELSE LET userResponses == FinalUserResponses(session.transcripts)
           IN  IF Len(userResponses) = 0
               THEN Throws(op, sid, "No user responses found in transcripts")
               ELSE LET evaluation ==
                          evaluateInterviewTranscripts(
                            userResponses, candidates[session.candidateId].tradeCategory)
                    IN  /\ Len(assessments) < MaxAssessments
                        /\ InsertAndPatch(op, sid,
                             TranscriptAssessmentDoc(sid, session.candidateId, evaluation),
                             session.candidateId)

evaluateSessionTranscripts(sid) ==
  LET session == sessions[sid]
      op == "evaluateSessionTranscripts"
  IN  IF ~session.exists \/ Len(session.transcripts) = 0
      THEN ReturnsFailure(op, sid, "No transcripts")
      ELSE IF HasAssessment(sid)
      THEN ReturnsFailure(op, sid, "Assessment exists")
      ELSE IF ~candidates[session.candidateId].exists
      THEN ReturnsFailure(op, sid, "Candidate not found")
      ELSE LET userResponses == FinalUserResponses(session.transcripts)
               evaluation ==
                 evaluateInterviewTranscripts(
                   userResponses, candidates[session.candidateId].tradeCategory)
           IN  /\ Len(assessments) < MaxAssessments
               /\ InsertAndPatch(op, sid,
                    TranscriptAssessmentDoc(sid, session.candidateId, evaluation),
                    session.candidateId)

calculateBasicScore(sid, cid) ==
  LET session == sessions[sid]
      op == "calculateBasicScore"
  IN  IF ~session.exists THEN Throws(op, sid, "Session not found")
      ELSE IF ~candidates[cid].exists THEN Throws(op, sid, "Candidate not found")
      ELSE LET sessionDuration ==
                 IF session.duration = {} THEN 0 ELSE CHOOSE d \in session.duration : TRUE
               b == BasicScore(session.transcripts, sessionDuration,
                               candidates[cid].tradeCategory)
           IN  /\ Len(assessments) < MaxAssessments
               /\ InsertAndPatch(op, sid, BasicAssessmentDoc(sid, cid, b), cid)

\* inserts only: the candidate is not patched
createAssessment(sid, cid, overallScore, passed) ==
  LET doc == ManualAssessmentDoc(sid, cid, Num(overallScore), passed)
      op == "createAssessment"
  IN  /\ Len(assessments) < MaxAssessments
      /\ IF ~InsertAccepted(doc) THEN Throws(op, sid, SchemaError)
         ELSE /\ assessments' = Append(assessments, doc)
              /\ Returns(op, sid)
              /\ UNCHANGED <<sessions, candidates, schemaValidation, fetch>>

createTranscriptBasedAssessment(sid, cid, evaluation) ==
  /\ Len(assessments) < MaxAssessments
  /\ InsertAndPatch("createTranscriptBasedAssessment", sid,
                    VapiAssessmentDoc(sid, cid, evaluation), cid)

\* assessmentId is the position of the document in the table; an optional
\* argument is the empty set when not given, notes the empty string
updateAssessment(assessmentId, overallScore, passed, notes) ==
  LET op == "updateAssessment"
  IN  IF assessmentId > Len(assessments) THEN Throws(op, "none", "Assessment not found")
      ELSE LET assessment == assessments[assessmentId]
               withScore == IF overallScore = {} THEN assessment
                            ELSE [assessment EXCEPT !.overallScore =
                                    Num(CHOOSE x \in overallScore : TRUE)]
               withPassed == IF passed = {} THEN withScore
                             ELSE [withScore EXCEPT !.passed = CHOOSE x \in passed : TRUE]
               updated == IF notes = "" THEN withPassed
                          ELSE [withPassed EXCEPT !.aiInsights =
                                  [f \in DOMAIN assessment.aiInsights \cup {"nextSteps"} |->
                                     IF f = "nextSteps" THEN notes
                                     ELSE assessment.aiInsights[f]]]
           IN  /\ assessments' = [assessments EXCEPT ![assessmentId] = updated]
               /\ Returns(op, assessment.sessionId)
               /\ UNCHANGED <<sessions, candidates, schemaValidation, fetch>>

(***************************************************************************)
(* Vendor call data (the object of GET /call/{id} and of the webhook).     *)
(* successEvaluation is [type, value]: type is "undefined", "string",      *)
(* "boolean" or "number"; value is the text, "true" / "false", or the      *)
(* number as an integer in the field num.                                  *)
(***************************************************************************)
VapiMessageInputs ==
  {[role |-> "user", message |-> TextScenarioA],
   [role |-> "bot", message |-> TextQuestion],
   [role |-> "system", message |-> TextQuestion]}

SuccessEvaluation(type, value, num) == [type |-> type, value |-> value, num |-> num]

SuccessEvaluationInputs ==
  {SuccessEvaluation("undefined", "", 0),
   SuccessEvaluation("string", "true", 0),
   SuccessEvaluation("string", "false", 0),
   SuccessEvaluation("boolean", "true", 0),
   SuccessEvaluation("boolean", "false", 0),
   SuccessEvaluation("number", "", 150)}

VapiPayloads ==
  [messages : SeqsUpTo(VapiMessageInputs, MaxVapiMessages),
   recordingUrl : RecordingUrls,
   successEvaluation : SuccessEvaluationInputs]

RECURSIVE ParseVapiMessages(_)
\* messages.filter(role is user or bot).map(to a final transcript entry)
ParseVapiMessages(messages) ==
  IF Len(messages) = 0 THEN <<>>
  ELSE LET msg == messages[1]
           rest == ParseVapiMessages(Tail(messages))
       IN  IF msg.role \in {"user", "bot"}
           THEN <<[text |-> msg.message,
                   role |-> IF msg.role = "bot" THEN "assistant" ELSE "user",
                   isFinal |-> TRUE]>> \o rest
           ELSE rest

\* JavaScript truthiness of successEvaluation
Truthy(se) ==
  \/ se.type = "string" /\ se.value # ""
  \/ se.type = "boolean" /\ se.value = "true"
  \/ se.type = "number" /\ se.num # 0

\* vapiSuccess of fetchVapiDataAndCreateAssessment: "true", "false" or "null"
ParseVapiSuccess(se) ==
  IF ~Truthy(se) THEN "null"
  ELSE IF se.type = "string" THEN (IF ToLowerCase(se.value) = "true" THEN "true" ELSE "false")
  ELSE IF se.type = "boolean" THEN se.value
  ELSE "null"

(***************************************************************************)
(* processVapiSession (vapiIntegration.ts): one mutation.                  *)
(***************************************************************************)
processVapiSession(sid, vapiData) ==
  LET session == sessions[sid]
      op == "processVapiSession"
      \* vapiData.analysis?.successEvaluation || 0, for a number or undefined
      overallScore == IF Truthy(vapiData.successEvaluation)
                      THEN Num(vapiData.successEvaluation.num) ELSE Num(0)
      passed == JsGe(overallScore, Num(70))
      transcripts == ParseVapiMessages(vapiData.messages)
      doc == ProcessVapiDoc(sid, session.candidateId, overallScore, passed)
  IN  IF ~session.exists THEN Throws(op, sid, "Session not found")
      ELSE /\ Len(assessments) < MaxAssessments
           /\ IF ~InsertAccepted(doc) THEN Throws(op, sid, SchemaError)
              ELSE IF ~candidates[session.candidateId].exists
              THEN Throws(op, sid, "Update on nonexistent document")
              ELSE /\ assessments' = Append(assessments, doc)
                   /\ sessions' = [sessions EXCEPT ![sid] =
                        [session EXCEPT !.transcripts = transcripts,
                                        !.recordingUrl = vapiData.recordingUrl,
                                        !.status = "completed",
                                        !.endTime = TRUE]]
                   /\ candidates' = [candidates EXCEPT
                        ![session.candidateId].screeningStatus =
                           IF passed THEN "passed" ELSE "failed"]
                   /\ Returns(op, sid)
                   /\ UNCHANGED <<schemaValidation, fetch>>

(***************************************************************************)
(* fetchVapiDataAndCreateAssessment: a Convex action.  The vendor fetch,   *)
(* each runQuery and each runMutation is a step of its own; other calls    *)
(* run between them.  fetch holds the action's position and locals.        *)
(***************************************************************************)
FetchOp == "fetchVapiDataAndCreateAssessment"

\* wrote: an earlier step of the call running has changed a stored document
FetchIdle ==
  [pc |-> "idle", sessionId |-> "none", vapiData |-> <<>>, candidateId |-> "none",
   tradeCategory |-> "none", wrote |-> FALSE]

\* the catch block: the action rethrows and ends
FetchThrows(reason) ==
  /\ outcome' = [op |-> FetchOp, id |-> fetch.sessionId, threw |-> TRUE, reason |-> reason, arg |-> "none"]
  /\ fetch' = FetchIdle
  /\ UNCHANGED <<sessions, candidates, assessments, schemaValidation, scoreIn, hook, clients, scoreOut, notifications>>

FetchRunning(sid) ==
  /\ outcome' = [op |-> FetchOp, id |-> sid, threw |-> FALSE, reason |-> "running", arg |-> "none"]
  /\ UNCHANGED <<scoreIn, hook, clients, scoreOut, notifications>>

\* what the vendor's API does with GET /call/{id}: a 2xx response, a response
\* with another status, or no response (fetch rejects)
VapiResponses == {"ok", "error status", "rejected"}

\* the status check left out
NotOkIgnored(response) == FALSE

\* !vapiResponse.ok
NotOk(response) == response # "ok"

\* how the fetch of the call data went, as the caller of the action sees it
FetchResult(keySet, response) ==
  IF ~keySet THEN "key absent"
  ELSE IF response = "rejected" THEN "fetch failed"
  ELSE IF response = "error status" THEN "non-success status"
  ELSE "fetched"

\* the call: key check and the HTTP fetch of the call data
FetchVapiData(sid, keySet, response, vapiData) ==
  /\ fetch.pc = "idle"
  /\ IF ~keySet
     THEN /\ outcome' = [op |-> FetchOp, id |-> sid, threw |-> TRUE,
                         reason |-> "VAPI_PRIVATE_KEY environment variable not set",
                         arg |-> FetchResult(keySet, response)]
          /\ UNCHANGED fetch
     ELSE IF response = "rejected"
     THEN /\ outcome' = [op |-> FetchOp, id |-> sid, threw |-> TRUE, reason |-> "fetch failed",
                         arg |-> FetchResult(keySet, response)]
          /\ UNCHANGED fetch
     ELSE IF NotOk(response)
     THEN /\ outcome' = [op |-> FetchOp, id |-> sid, threw |-> TRUE, reason |-> "VAPI API error",
                         arg |-> FetchResult(keySet, response)]
          /\ UNCHANGED fetch
     ELSE /\ fetch' = [FetchIdle EXCEPT !.pc = "getSession", !.sessionId = sid,
                                        !.vapiData = vapiData]
          /\ outcome' = [op |-> FetchOp, id |-> sid, threw |-> FALSE, reason |-> "running",
                         arg |-> FetchResult(keySet, response)]
  /\ UNCHANGED <<sessions, candidates, assessments, schemaValidation, scoreIn, hook, clients, scoreOut, notifications>>

\* ctx.runQuery(api.internal.getSession)
FetchGetSession ==
  /\ fetch.pc = "getSession"
  /\ IF ~sessions[fetch.sessionId].exists THEN FetchThrows("Session not found")
     ELSE /\ fetch' = [fetch EXCEPT !.pc = "getCandidate",
                                    !.candidateId = sessions[fetch.sessionId].candidateId]
          /\ FetchRunning(fetch.sessionId)
          /\ UNCHANGED <<sessions, candidates, assessments, schemaValidation>>

\* ctx.runQuery(api.internal.getCandidate)
FetchGetCandidate ==
  /\ fetch.pc = "getCandidate"
  /\ IF ~candidates[fetch.candidateId].exists THEN FetchThrows("Candidate not found")
     ELSE /\ fetch' = [fetch EXCEPT !.pc = "updateSessionData",
                                    !.tradeCategory = candidates[fetch.candidateId].tradeCategory]
          /\ FetchRunning(fetch.sessionId)
          /\ UNCHANGED <<sessions, candidates, assessments, schemaValidation>>

\* ctx.runMutation(api.sessions.updateSessionData) with the parsed transcripts
FetchUpdateSessionData ==
  /\ fetch.pc = "updateSessionData"
  /\ IF ~sessions[fetch.sessionId].exists THEN FetchThrows("Session not found")
     ELSE /\ sessions' = [sessions EXCEPT
                            ![fetch.sessionId].transcripts =
                               ParseVapiMessages(fetch.vapiData.messages),
                            ![fetch.sessionId].recordingUrl =
                               IF fetch.vapiData.recordingUrl # "undefined"
                               THEN fetch.vapiData.recordingUrl ELSE @]
          /\ fetch' = [fetch EXCEPT !.pc = "createAssessment",
                                    !.wrote = sessions' # sessions]
          /\ FetchRunning(fetch.sessionId)
          /\ UNCHANGED <<candidates, assessments, schemaValidation>>

\* evaluateFromVapiData, then ctx.runMutation(createTranscriptBasedAssessment)
FetchCreateAssessment ==
  LET transcripts == ParseVapiMessages(fetch.vapiData.messages)
      userResponses == SelectEntries(transcripts, FALSE, {"user"})
      vapiSuccess == ParseVapiSuccess(fetch.vapiData.successEvaluation)
      evaluation == evaluateFromVapiData(userResponses, fetch.tradeCategory, vapiSuccess)
      doc == VapiAssessmentDoc(fetch.sessionId, fetch.candidateId, evaluation)
  IN  /\ fetch.pc = "createAssessment"
      /\ Len(assessments) < MaxAssessments
      /\ IF ~InsertAccepted(doc) THEN FetchThrows(SchemaError)
         ELSE IF ~candidates[fetch.candidateId].exists
         THEN FetchThrows("Update on nonexistent document")
         ELSE /\ assessments' = Append(assessments, doc)
              /\ candidates' = [candidates EXCEPT
                   ![fetch.candidateId].screeningStatus =
                      IF doc.passed THEN "passed" ELSE "failed"]
              /\ outcome' = [op |-> FetchOp, id |-> fetch.sessionId, threw |-> FALSE,
                             reason |-> "success", arg |-> "none"]
              /\ fetch' = FetchIdle
              /\ UNCHANGED <<sessions, schemaValidation, scoreIn, hook, clients, scoreOut, notifications>>

(***************************************************************************)
(* The deployment: empty tables; calls arrive in any order.                *)
(***************************************************************************)
ManualScores == {95}

NoScore == [path |-> "none"]

NoScoreIn == [transcripts |-> <<>>, extra |-> [text |-> "", role |-> "user", isFinal |-> FALSE]]

Init ==
  /\ sessions = [s \in SessionIds |-> NoSession]
  /\ candidates = [c \in CandidateIds |-> NoCandidate]
  /\ assessments = <<>>
  /\ schemaValidation \in BOOLEAN
  /\ outcome = NoOutcome
  /\ fetch = FetchIdle
  /\ notifications = <<>>
  /\ hook = NoHook
  /\ clients = <<>>
  /\ scoreIn = NoScoreIn
  /\ scoreOut = NoScore

\* the evaluation a client hands to createTranscriptBasedAssessment
ClientEvaluations ==
  {evaluateFromVapiData(<<[text |-> TextScenarioA]>>, "construction", "true")}

\* the sessions and candidates the calls are about
SpecSessions == {"s1"}
SpecCandidates == {"c1"}

\* Spec: every mutation, called in any order
Next ==
  \/ \E cid \in SpecCandidates, args \in CandidateInputs : createCandidate(cid, args)
  \/ \E sid \in SpecSessions, cid \in SpecCandidates : createSession(sid, cid)
  \/ \E sid \in SpecSessions : startSession(sid)
  \/ \E sid \in SpecSessions, t \in TranscriptInputs : updateSessionData(sid, {t}, "undefined")
  \/ \E sid \in SpecSessions, url \in RecordingUrls : updateSessionData(sid, {}, url)
  \/ \E sid \in SpecSessions, url \in RecordingUrls, e \in ElapsedInputs :
       completeSession(sid, url, {}, e)
  \/ \E sid \in SpecSessions, t \in TranscriptInputs, e \in ElapsedInputs :
       completeSession(sid, "undefined", {t}, e)
  \/ \E sid \in SpecSessions, reason \in {"failed", "abandoned"}, e \in ElapsedInputs :
       failSession(sid, reason, e)
  \/ \E sid \in SpecSessions : triggerTranscriptAssessment(sid)
  \/ \E sid \in SpecSessions : evaluateSessionTranscripts(sid)
  \/ \E sid \in SpecSessions, cid \in SpecCandidates : calculateBasicScore(sid, cid)
  \/ \E sid \in SpecSessions, cid \in SpecCandidates, score \in ManualScores, passed \in BOOLEAN :
       \* the ids a client holds are ids of documents it has read
       /\ sessions[sid].exists /\ candidates[cid].exists
       /\ createAssessment(sid, cid, score, passed)
  \/ \E sid \in SpecSessions, cid \in SpecCandidates, evaluation \in ClientEvaluations :
       /\ sessions[sid].exists /\ candidates[cid].exists
       /\ createTranscriptBasedAssessment(sid, cid, evaluation)
  \/ \E sid \in SpecSessions, data \in VapiPayloads :
       /\ data.successEvaluation.type \in {"undefined", "number"}
       /\ processVapiSession(sid, data)

Spec == Init /\ [][Next]_vars

(***************************************************************************)
(* SpecEval: the session lifecycle and the two transcript evaluations.     *)
(***************************************************************************)
EvalNext ==
  \/ \E cid \in SpecCandidates, args \in CandidateInputs : createCandidate(cid, args)
  \/ \E sid \in SpecSessions, cid \in SpecCandidates : createSession(sid, cid)
  \/ \E sid \in SpecSessions : startSession(sid)
  \/ \E sid \in SpecSessions, t \in TranscriptInputs : updateSessionData(sid, {t}, "undefined")
  \/ \E sid \in SpecSessions, t \in TranscriptInputs, e \in ElapsedInputs :
       completeSession(sid, "undefined", {t}, e)
  \/ \E sid \in SpecSessions, reason \in {"failed", "abandoned"}, e \in ElapsedInputs :
       failSession(sid, reason, e)
  \/ \E sid \in SpecSessions : triggerTranscriptAssessment(sid)
  \/ \E sid \in SpecSessions : evaluateSessionTranscripts(sid)

SpecEval == Init /\ [][EvalNext]_vars

(***************************************************************************)
(* SpecNotify: the two transcript evaluations on completed sessions beside *)
(* updateCandidateScoring, which a client calls with an assessment's       *)
(* result.                                                                 *)
(***************************************************************************)
\* overall scores a client reports to updateCandidateScoring
ReportedScores == {50, 75, 95}

NotifyNext ==
  \/ \E cid \in SpecCandidates, args \in CandidateInputs : createCandidate(cid, args)
  \/ \E sid \in SpecSessions, cid \in SpecCandidates : createSession(sid, cid)
  \/ \E sid \in SpecSessions, t \in TranscriptInputs, e \in ElapsedInputs :
       completeSession(sid, "undefined", {t}, e)
  \/ \E sid \in SpecSessions : triggerTranscriptAssessment(sid)
  \/ \E sid \in SpecSessions : evaluateSessionTranscripts(sid)
  \/ \E cid \in SpecCandidates, score \in ReportedScores, passed \in BOOLEAN,
        autoAdvanceStatus \in BOOLEAN :
       updateCandidateScoring(cid, score, passed, autoAdvanceStatus)

SpecNotify == Init /\ [][NotifyNext]_vars

(***************************************************************************)
(* SpecIntegrity: the three scoring mutations on a database whose          *)
(* references can dangle.  sessions.candidateId is a v.id, not a foreign   *)
(* key: a candidate document can be removed from the deployment's data     *)
(* while a session still refers to it.                                     *)
(***************************************************************************)
\* a candidate document is removed from the table
RemoveCandidate(cid) ==
  /\ candidates[cid].exists
  /\ candidates' = [candidates EXCEPT ![cid] = NoCandidate]
  /\ outcome' = [op |-> "removeCandidate", id |-> cid, threw |-> FALSE, reason |-> "success",
                 arg |-> "none"]
  /\ UNCHANGED <<sessions, assessments, schemaValidation, fetch, scoreIn, hook, clients, scoreOut, notifications>>

\* no document refers to the id: the database never hands out an id twice
FreshCandidateId(cid) ==
  \A sid \in SessionIds : sessions[sid].exists => sessions[sid].candidateId # cid

IntegrityNext ==
  \/ \E cid \in SpecCandidates, args \in CandidateInputs :
       FreshCandidateId(cid) /\ createCandidate(cid, args)
  \/ \E sid \in SpecSessions, cid \in SpecCandidates : createSession(sid, cid)
  \/ \E sid \in SpecSessions, t \in TranscriptInputs : updateSessionData(sid, {t}, "undefined")
  \/ \E sid \in SpecSessions, t \in TranscriptInputs, e \in ElapsedInputs :
       completeSession(sid, "undefined", {t}, e)
  \/ \E cid \in SpecCandidates : RemoveCandidate(cid)
  \/ \E sid \in SpecSessions : triggerTranscriptAssessment(sid)
  \/ \E sid \in SpecSessions : evaluateSessionTranscripts(sid)
  \* the caller passes the candidate id it read from the session
  \/ \E sid \in SpecSessions : calculateBasicScore(sid, sessions[sid].candidateId)

SpecIntegrity == Init /\ [][IntegrityNext]_vars

(***************************************************************************)
(* SpecVapi: the vendor path, step by step, beside the two transcript      *)
(* triggers on sessions that clients create and complete.                  *)
(***************************************************************************)
\* call data the vendor returns under SpecVapi: a pass/fail rubric
FetchPayloads == {d \in VapiPayloads : d.successEvaluation.type # "number"}

VapiCandidateInputs == {a \in CandidateInputs : a.tradeCategory = "construction"}

VapiNext ==
  \/ \E cid \in SpecCandidates, args \in VapiCandidateInputs : createCandidate(cid, args)
  \/ \E sid \in SpecSessions, cid \in SpecCandidates : createSession(sid, cid)
  \/ \E sid \in SpecSessions, t \in TranscriptInputs, e \in ElapsedInputs :
       completeSession(sid, "undefined", {t}, e)
  \/ \E sid \in SpecSessions : triggerTranscriptAssessment(sid)
  \/ \E sid \in SpecSessions : evaluateSessionTranscripts(sid)
  \/ \E sid \in SpecSessions, keySet \in BOOLEAN, response \in VapiResponses,
        data \in FetchPayloads :
       FetchVapiData(sid, keySet, response, data)
  \/ FetchGetSession
  \/ FetchGetCandidate
  \/ FetchUpdateSessionData
  \/ FetchCreateAssessment

SpecVapi == Init /\ [][VapiNext]_vars

(***************************************************************************)
(* SpecScore: the scoring functions on their own.  A run draws a           *)
(* transcript and one more entry with isFinal = false, and applies one     *)
(* scoring path to the transcript with and without that entry.             *)
(***************************************************************************)
ScoreInit ==
  /\ scoreIn \in [transcripts : SeqsUpTo(ScoreEntries, MaxResponses),
                  extra : {e \in ScoreEntries : ~e.isFinal}]
  /\ scoreOut = NoScore
  /\ sessions = [s \in SessionIds |-> NoSession]
  /\ candidates = [c \in CandidateIds |-> NoCandidate]
  /\ assessments = <<>>
  /\ schemaValidation = TRUE
  /\ outcome = NoOutcome
  /\ fetch = FetchIdle
  /\ notifications = <<>>
  /\ hook = NoHook
  /\ clients = <<>>

Extended(in) == Append(in.transcripts, in.extra)

\* evaluateInterviewTranscripts on the session's final user responses
ScoreTranscript(cat) ==
  /\ scoreOut = NoScore
  /\ scoreOut' = [path |-> "transcript", cat |-> cat,
                  base |-> TranscriptEvaluation(scoreIn.transcripts, cat),
                  extended |-> TranscriptEvaluation(Extended(scoreIn), cat)]
  /\ UNCHANGED <<scoreIn, hook, clients, sessions, candidates, assessments, schemaValidation, outcome, fetch, notifications>>

\* the scores calculateBasicScore computes
ScoreBasic(cat, dur) ==
  /\ scoreOut = NoScore
  /\ scoreOut' = [path |-> "basic", cat |-> cat, duration |-> dur,
                  base |-> BasicScore(scoreIn.transcripts, dur, cat),
                  extended |-> BasicScore(Extended(scoreIn), dur, cat)]
  /\ UNCHANGED <<scoreIn, hook, clients, sessions, candidates, assessments, schemaValidation, outcome, fetch, notifications>>

\* the vendor scoring of fetchVapiDataAndCreateAssessment: vapiSuccess parsed from
\* the call data's successEvaluation, then evaluateFromVapiData with it and,
\* for comparison, with no signal
ScoreVapi(cat, successEvaluation) ==
  /\ scoreOut = NoScore
  /\ scoreOut' = [path |-> "vapi", cat |-> cat, successEvaluation |-> successEvaluation,
                  vapiSuccess |-> ParseVapiSuccess(successEvaluation),
                  base |-> evaluateFromVapiData(
                             SelectEntries(scoreIn.transcripts, FALSE, {"user"}), cat,
                             ParseVapiSuccess(successEvaluation)),
                  internal |-> evaluateFromVapiData(
                             SelectEntries(scoreIn.transcripts, FALSE, {"user"}), cat, "null")]
  /\ UNCHANGED <<scoreIn, hook, clients, sessions, candidates, assessments, schemaValidation, outcome, fetch, notifications>>

\* trade-category strings given to the calculators: defined categories and
\* strings that are none of them
CalculatorCategories == {"construction", "general", "forklift", "constructor"}

\* the sub-scores of a list of responses
SubScores(responses, cat) ==
  [advancedKeywordScore |-> calculateAdvancedKeywordScore(responses, cat),
   tradeKeywordScore |-> calculateTradeKeywordScore(responses, cat),
   experienceScore |-> calculateExperienceScore(responses),
   communicationScore |-> CommunicationScore(responses),
   engagementScore |-> EngagementScore(responses)]

\* each sub-score calculator on the candidate's responses, with the trade
\* category given and with category general
ScoreCalculators(cat) ==
  LET responses == SelectEntries(scoreIn.transcripts, FALSE, {"user"})
  IN  /\ scoreOut = NoScore
      /\ scoreOut' = [path |-> "calculators", cat |-> cat, responses |-> Len(responses),
                      base |-> SubScores(responses, cat),
                      general |-> SubScores(responses, "general")]
      /\ UNCHANGED <<scoreIn, hook, clients, sessions, candidates, assessments, schemaValidation, outcome,
                     fetch, notifications>>

ScoreNext ==
  \/ \E cat \in CalculatorCategories : ScoreCalculators(cat)
  \/ \E cat \in ScoreCategories : ScoreTranscript(cat)
  \/ \E cat \in ScoreCategories, dur \in ScoreDurations : ScoreBasic(cat, dur)
  \/ \E cat \in ScoreCategories, se \in SuccessEvaluationInputs : ScoreVapi(cat, se)

SpecScore == ScoreInit /\ [][ScoreNext]_vars

(***************************************************************************)
(* Properties.                                                             *)
(***************************************************************************)
EvalOps == {"triggerTranscriptAssessment", "evaluateSessionTranscripts"}

\* how the two transcript evaluations report an existing assessment
DuplicateReasons == {"Assessment already exists for this session", "Assessment exists"}

\* how an evaluation reports that there is nothing to score
InsufficientReasons ==
  {"No session or transcripts found", "No user responses found in transcripts", "No transcripts"}

TerminalStatuses == {"completed", "failed", "abandoned"}

\* C1: in every reachable state each session id is referenced by at most one
\* record of the assessments table.
C1_AtMostOneAssessmentPerSession ==
  \A sid \in SessionIds : Cardinality(BySession(sid)) <= 1

\* C2: an evaluation (triggerTranscriptAssessment or evaluateSessionTranscripts)
\* called right after a successful evaluation of the same session reports that
\* the assessment already exists, inserts nothing, and leaves the assessments
\* table and the candidates' screening statuses as the first call left them.
C2_SecondEvaluationIsNoOp ==
  [][(/\ outcome.op \in EvalOps
      /\ outcome.reason = "success"
      /\ outcome'.op \in EvalOps
      /\ outcome'.id = outcome.id)
     => (/\ outcome'.reason \in DuplicateReasons
         /\ assessments' = assessments
         /\ candidates' = candidates)]_vars

\* C2 witness: the last call was an evaluation that reported the duplicate, on a
\* session whose one assessment is the record a transcript evaluation wrote and
\* whose candidate carries the decision of that record.
C2_Witness ==
  /\ outcome.op \in EvalOps
  /\ outcome.reason \in DuplicateReasons
  /\ \E sid \in SessionIds :
       /\ outcome.id = sid
       /\ Cardinality(BySession(sid)) = 1
       /\ \A i \in BySession(sid) :
            /\ "evaluatedAt" \notin DOMAIN assessments[i]
            /\ "voiceAnalysis" \in DOMAIN assessments[i]
            /\ candidates[sessions[sid].candidateId].screeningStatus =
                 IF assessments[i].passed THEN "passed" ELSE "failed"

\* the session is completed, has a finalized candidate response and an assessment
ScoredCompleted(sid) ==
  /\ sessions[sid].exists
  /\ sessions[sid].status = "completed"
  /\ Len(FinalUserResponses(sessions[sid].transcripts)) > 0
  /\ HasAssessment(sid)

\* C3: when the two transcript triggers and the vendor path run concurrently on
\* a completed session, an attempt that comes to its insert when the session
\* already has an assessment inserts nothing and observes the duplicate outcome,
\* so that exactly one assessment is persisted.
C3_ConcurrentAttemptsKeepOne ==
  [][\A sid \in SessionIds :
       (/\ ScoredCompleted(sid)
        /\ outcome'.id = sid
        /\ \/ outcome'.op \in EvalOps
           \/ outcome'.op = FetchOp /\ fetch.pc = "createAssessment")
       => (/\ assessments' = assessments
           /\ outcome'.reason \in DuplicateReasons)]_vars

\* the session exists with its candidate and no assessment, and its transcript
\* has no entry that is final and of role user
NothingToScore(sid) ==
  /\ sessions[sid].exists
  /\ candidates[sessions[sid].candidateId].exists
  /\ ~HasAssessment(sid)
  /\ Len(FinalUserResponses(sessions[sid].transcripts)) = 0

\* C4: an evaluation of a session whose transcript has no final user entry
\* returns an insufficient-data outcome and inserts no assessment.
C4_NoFinalUserEntryScoresNothing ==
  [][\A sid \in SessionIds :
       (NothingToScore(sid) /\ outcome'.op \in EvalOps /\ outcome'.id = sid)
       => (/\ assessments' = assessments
           /\ outcome'.reason \in InsufficientReasons)]_vars

\* the session's transcript has interviewer entries only
InterviewerOnly(sid) ==
  /\ NothingToScore(sid)
  /\ Len(sessions[sid].transcripts) > 0
  /\ \A i \in 1..Len(sessions[sid].transcripts) :
       sessions[sid].transcripts[i].role = "assistant"

\* C5: an evaluation of a session with interviewer utterances only leaves the
\* candidate's screening status as it was.
C5_InterviewerOnlyKeepsStatus ==
  [][\A sid \in SessionIds :
       (InterviewerOnly(sid) /\ outcome'.op \in EvalOps /\ outcome'.id = sid)
       => candidates'[sessions[sid].candidateId].screeningStatus =
            candidates[sessions[sid].candidateId].screeningStatus]_vars

\* C6: when an assessment exists for a session, the manual trigger, the automatic
\* trigger and the webhook path each write nothing (no insert, no change of a
\* candidate) and each report the duplicate outcome.
C6_ExistingAssessmentSameOutcome ==
  [][\A sid \in SessionIds :
       (/\ sessions[sid].exists
        /\ Len(sessions[sid].transcripts) > 0
        /\ HasAssessment(sid)
        /\ outcome'.op \in EvalOps \cup {"processVapiSession"}
        /\ outcome'.id = sid)
       => (/\ assessments' = assessments
           /\ candidates' = candidates
           /\ outcome'.reason \in DuplicateReasons)]_vars

\* C10: the status of a session changes only from created to active and from
\* active to completed, failed or abandoned; a completed, failed or abandoned
\* session keeps its status.
C10_SessionStatusEdges ==
  [][\A sid \in SessionIds :
       (sessions[sid].exists /\ sessions'[sid].status # sessions[sid].status)
       => \/ sessions[sid].status = "created" /\ sessions'[sid].status = "active"
          \/ sessions[sid].status = "active" /\ sessions'[sid].status \in TerminalStatuses]_vars

\* the numeric results of a scoring path: every field but the two lists
ScoreFields(result) == DOMAIN result \ {"strengths", "weaknesses", "passed"}

\* C7: appending an entry with isFinal = false (of either role) to a transcript
\* changes no sub-score, not the overall score and not the pass decision of the
\* transcript evaluation or of the basic scorer.
C7_NonFinalEntriesChangeNoScore ==
  scoreOut.path \in {"transcript", "basic"} =>
    /\ scoreOut.extended.passed = scoreOut.base.passed
    /\ \A f \in ScoreFields(scoreOut.base) : scoreOut.extended[f] = scoreOut.base[f]

\* x is a number in 0..100
InRange(x) == IsNum(x) /\ x.n >= 0 /\ x.n <= 100 * x.d

\* C8: every sub-score and every overall score a scoring path computes is a
\* number in 0..100, for any number of responses including none.
C8_ScoresWithinRange ==
  scoreOut.path # "none" =>
    \A f \in ScoreFields(scoreOut.base) : InRange(scoreOut.base[f])

\* the vendor's verdict in the call data: successEvaluation is the text or the
\* boolean true (positive) or false (negative), or is absent (none)
VendorSignal(se) ==
  IF se.type \in {"string", "boolean"} /\ se.value \in {"true", "false"} THEN se.value
  ELSE IF se.type = "undefined" THEN "none"
  ELSE "other"

\* C9: in the vendor-data scorer, with S the score computed without a vendor
\* signal, the overall score is max(S, 70) under a positive signal (at least 70,
\* and S or 70), min(S, 60) under a negative signal (at most 60, and S or 60),
\* and S with no signal.
C9_VendorSignalClamp ==
  scoreOut.path = "vapi" =>
    LET S == scoreOut.internal.overallScore
        overall == scoreOut.base.overallScore
        signal == VendorSignal(scoreOut.successEvaluation)
    IN  /\ signal = "true" =>
             /\ JsGe(overall, Num(70))
             /\ overall \in {S, Num(70)}
             /\ IsNum(S) => JsGe(overall, S)
        /\ signal = "false" =>
             /\ JsGe(Num(60), overall)
             /\ overall \in {S, Num(60)}
             /\ IsNum(S) => JsGe(S, overall)
        /\ signal = "none" => overall = S

C12_FailSessionEffects ==
  [][(outcome'.op = "failSession" /\ ~outcome'.threw)
     => LET sid == outcome'.id
            reason == outcome'.arg
        IN  /\ reason \in {"abandoned", "failed"}
            /\ sessions'[sid].status = reason
            /\ candidates'[sessions[sid].candidateId].screeningStatus =
                 (IF reason = "abandoned" THEN "invited" ELSE "pending_review")
            /\ assessments' = assessments]_vars

\* a session that had an assessment was abandoned and its candidate is invited again
C12_Witness ==
  /\ outcome.op = "failSession" /\ ~outcome.threw /\ outcome.arg = "abandoned"
  /\ sessions[outcome.id].status = "abandoned"
  /\ candidates[sessions[outcome.id].candidateId].screeningStatus = "invited"
  /\ HasAssessment(outcome.id)

\* the assessment a step has inserted
Inserted == assessments'[Len(assessments')]

\* C13: a step that inserts an assessment leaves the candidate of that assessment
\* with screening status passed when the assessment's passed flag is true and
\* failed otherwise, and a step that moves a candidate to passed or failed
\* inserts an assessment: the insert and the status are never seen apart.
C13_InsertAndStatusInOneStep ==
  [][/\ Len(assessments') = Len(assessments) + 1
          => candidates'[Inserted.candidateId].screeningStatus =
               (IF Inserted.passed THEN "passed" ELSE "failed")
     /\ \A cid \in CandidateIds :
          (/\ candidates'[cid].screeningStatus \in {"passed", "failed"}
           /\ candidates'[cid].screeningStatus # candidates[cid].screeningStatus)
          => Len(assessments') = Len(assessments) + 1]_vars

\* C14: when evaluateSessionTranscripts or fetchVapiDataAndCreateAssessment
\* inserts an assessment, the session of that assessment has status completed at
\* the insert; they insert nothing for a session that is created, active, failed
\* or abandoned.
C14_InsertOnlyForCompletedSession ==
  [][(/\ outcome'.op \in {"evaluateSessionTranscripts", FetchOp}
      /\ Len(assessments') = Len(assessments) + 1)
     => sessions[Inserted.sessionId].status = "completed"]_vars

\* the notifications a step has inserted
NewNotifications ==
  {notifications'[i] : i \in (Len(notifications) + 1)..Len(notifications')}

\* C15: when an evaluation inserts an assessment that passed with an overall
\* score of at least 90, the same step inserts a top_performer notification for
\* the candidate; when the assessment did not pass, the step inserts a
\* candidate_completed notification of priority low; when it passed with a score
\* under 90, the step inserts no notification.
C15_EvaluationNotifies ==
  [][(outcome'.op \in EvalOps /\ Len(assessments') = Len(assessments) + 1)
     => LET cid == Inserted.candidateId
        IN  IF Inserted.passed /\ JsGe(Inserted.overallScore, Num(90))
            THEN \E n \in NewNotifications : n.type = "top_performer" /\ n.candidateId = cid
            ELSE IF ~Inserted.passed
            THEN \E n \in NewNotifications :
                   n.type = "candidate_completed" /\ n.priority = "low" /\ n.candidateId = cid
            ELSE NewNotifications = {}]_vars

\* the place of a screening status in the order
\* invited < in_progress < completed < {passed, failed, pending_review}
StatusRank(status) ==
  CASE status = "invited" -> 0
    [] status = "in_progress" -> 1
    [] status = "completed" -> 2
    [] status \in {"passed", "failed", "pending_review"} -> 3

\* C16: no session lifecycle operation and no evaluation moves a candidate's
\* screening status backwards in the order invited < in_progress < completed <
\* {passed, failed, pending_review}, a second session of a decided candidate
\* included.
C16_ScreeningStatusMonotone ==
  [][\A cid \in CandidateIds :
       candidates[cid].exists
       => StatusRank(candidates'[cid].screeningStatus)
            >= StatusRank(candidates[cid].screeningStatus)]_vars

ScoringOps == EvalOps \cup {"calculateBasicScore"}

\* the session document or the candidate document it refers to is missing
DanglingSession(sid) ==
  \/ ~sessions[sid].exists
  \/ ~candidates[sessions[sid].candidateId].exists

FetchFailures == {"key absent", "fetch failed", "non-success status"}

\* C18: when the fetch of the call data in fetchVapiDataAndCreateAssessment fails,
\* returns a non-success status, or the API key is absent, the attempt ends in
\* an error at that step: no assessment is inserted, no session (transcripts,
\* recording URL) and no candidate (screening status) is changed.
C18_FetchFailureWritesNothing ==
  [][(outcome'.op = FetchOp /\ fetch.pc = "idle" /\ outcome'.arg \in FetchFailures)
     => (/\ outcome'.threw
         /\ fetch'.pc = "idle"
         /\ assessments' = assessments
         /\ sessions' = sessions
         /\ candidates' = candidates)]_vars

\* the vendor answered with an error status for a completed session with a transcript
C18_Witness ==
  /\ outcome.op = FetchOp
  /\ outcome.arg = "non-success status"
  /\ outcome.threw
  /\ sessions[outcome.id].status = "completed"
  /\ Len(sessions[outcome.id].transcripts) > 0
  /\ assessments = <<>>

SubScoreNames ==
  {"advancedKeywordScore", "tradeKeywordScore", "experienceScore", "communicationScore",
   "engagementScore"}

\* C19: each sub-score calculator returns for every list of responses (it raises
\* no error), and returns 0 for the empty list.
C19_CalculatorsTotalZeroOnEmpty ==
  (scoreOut.path = "calculators" /\ scoreOut.cat \in TradeCategories) =>
    \A f \in SubScoreNames :
      /\ ~Threw(scoreOut.base[f])
      /\ scoreOut.responses = 0 => scoreOut.base[f] = Num(0)

\* C20: for a trade-category string that is none of the seven defined categories,
\* calculateAdvancedKeywordScore and calculateTradeKeywordScore raise no error
\* and return what they return for category general.
C20_UnknownTradeScoresAsGeneral ==
  (scoreOut.path = "calculators" /\ scoreOut.cat \notin TradeCategories) =>
    \A f \in {"advancedKeywordScore", "tradeKeywordScore"} :
      /\ ~Threw(scoreOut.base[f])
      /\ scoreOut.base[f] = scoreOut.general[f]

\* C21: an assessment inserted by a transcript-based scorer (the two transcript
\* evaluations, and createTranscriptBasedAssessment with the vendor scorer's
\* evaluation) stores passed = (overallScore >= 65), and one inserted by
\* calculateBasicScore stores passed = (overallScore >= 60).
C21_PassedIsThresholdTest ==
  [][Len(assessments') = Len(assessments) + 1
     => /\ outcome'.op \in EvalOps \cup {"createTranscriptBasedAssessment"}
             => Inserted.passed = JsGe(Inserted.overallScore, Num(65))
        /\ outcome'.op = "calculateBasicScore"
             => Inserted.passed = JsGe(Inserted.overallScore, Num(60))]_vars

\* a transcript evaluation has stored a score under 65 as not passed
C21_Witness ==
  /\ outcome.op \in EvalOps /\ outcome.reason = "success"
  /\ Len(assessments) > 0
  /\ IsNum(assessments[Len(assessments)].overallScore)
  /\ JsLt(assessments[Len(assessments)].overallScore, Num(65))
  /\ ~assessments[Len(assessments)].passed

(***************************************************************************)
(* SpecRoster: the operations that insert candidates (candidates.ts        *)
(* createCandidate, bulkCreateCandidates; createTestData of the sample     *)
(* data module), on tables large enough for two runs of createTestData.    *)
(* The database hands out the unused ids in a fixed order.                 *)
(***************************************************************************)
AllocationOrder ==
  [candidates |-> <<"c1", "c2", "c3", "c4", "c5", "c6", "c7", "c8", "c9", "c10", "c11">>,
   sessions |-> <<"s1", "s2", "s3", "s4", "s5", "s6">>]

\* the ids the next inserts into a table get, in order
FreeIds(table, order) ==
  LET Unused(id) == ~table[id].exists
  IN  SelectSeq(order, Unused)

RosterInputs ==
  CandidateInputs \cup {[email |-> "john.smith@example.com", tradeCategory |-> "construction"]}

\* the loop of bulkCreateCandidates: each item is looked up by email in the
\* table as the earlier items of the same call have left it
bulkCreateCandidates(list, skipDuplicates) ==
  LET RECURSIVE Loop(_, _)
      Loop(table, i) ==
        IF i > Len(list) THEN table
        ELSE IF \E c \in DOMAIN table : table[c].exists /\ table[c].email = list[i].email
             THEN Loop(table, i + 1)
             ELSE Loop([table EXCEPT ![Head(FreeIds(table, AllocationOrder.candidates))] =
                          [exists |-> TRUE, email |-> list[i].email,
                           tradeCategory |-> list[i].tradeCategory,
                           screeningStatus |-> "invited"]], i + 1)
  IN  /\ Len(FreeIds(candidates, AllocationOrder.candidates)) >= Len(list)
      /\ candidates' = Loop(candidates, 1)
      /\ outcome' = [op |-> "bulkCreateCandidates", id |-> "none", threw |-> FALSE,
                     reason |-> "success",
                     arg |-> IF skipDuplicates THEN "skipDuplicates" ELSE "none"]
      /\ UNCHANGED <<sessions, assessments, schemaValidation, fetch, scoreIn, hook, clients, scoreOut,
                     notifications>>

\* createTestData: five candidates, three sessions and two assessments are
\* inserted as the handler lists them; the first and third candidate are then
\* patched to passed
createTestData ==
  LET cids == FreeIds(candidates, AllocationOrder.candidates)
      sids == FreeIds(sessions, AllocationOrder.sessions)
      Candidate(email, tradeCategory, screeningStatus) ==
        [exists |-> TRUE, email |-> email, tradeCategory |-> tradeCategory,
         screeningStatus |-> screeningStatus]
      Entry(text, role) == [text |-> text, role |-> role, isFinal |-> TRUE]
      Session(cid, status, endTime, duration, transcripts) ==
        [exists |-> TRUE, candidateId |-> cid, status |-> status, startTime |-> TRUE,
         endTime |-> endTime, duration |-> duration, transcripts |-> transcripts,
         recordingUrl |-> "undefined"]
      Assessment(sid, cid, overallScore, sub, strengths, weaknesses, nextSteps) ==
        [sessionId |-> sid, candidateId |-> cid, overallScore |-> Num(overallScore),
         passed |-> TRUE,
         scores |-> GroupScores(Num(sub[1]), Num(sub[2]), Num(sub[3]), Num(sub[4])),
         aiInsights |-> [strengths |-> strengths, weaknesses |-> weaknesses,
                         riskFactors |-> <<>>, nextSteps |-> nextSteps],
         completedAt |-> TRUE]
  IN  /\ Len(cids) >= 5 /\ Len(sids) >= 3
      /\ candidates' =
           [candidates EXCEPT
              ![cids[1]] = Candidate("john.smith@example.com", "construction", "passed"),
              ![cids[2]] = Candidate("sarah.jones@example.com", "electrical", "in_progress"),
              ![cids[3]] = Candidate("mike.wilson@example.com", "welding", "passed"),
              ![cids[4]] = Candidate("anna.davis@example.com", "plumbing", "failed"),
              ![cids[5]] = Candidate("tom.brown@example.com", "maintenance", "invited")]
      /\ sessions' =
           [sessions EXCEPT
              ![sids[1]] = Session(cids[1], "completed", TRUE, {900000},
                 <<Entry("Hi John, can you tell me about your construction experience?",
                         "assistant"),
                   Entry("I have 5 years of experience in residential construction. I'm skilled with concrete, framing, and blueprint reading. Safety is always my top priority on the job site.",
                         "user"),
                   Entry("Great! Can you describe a challenging project you worked on?",
                         "assistant"),
                   Entry("We built a foundation on difficult terrain. Had to use specialized equipment and follow strict safety protocols. Completed on time and within budget.",
                         "user")>>),
              ![sids[2]] = Session(cids[2], "active", FALSE, {},
                 <<Entry("Hi Sarah, thank you for joining. Can you tell me about your electrical background?",
                         "assistant"),
                   Entry("I'm a licensed electrician with 3 years experience. I specialize in residential wiring and always follow electrical safety codes.",
                         "user")>>),
              ![sids[3]] = Session(cids[3], "completed", TRUE, {1200000},
                 <<Entry("Mike, tell me about your welding experience and safety practices.",
                         "assistant"),
                   Entry("I'm certified in MIG and TIG welding. Always use proper protective equipment and follow welding safety protocols. I inspect all welds for quality and safety compliance.",
                         "user")>>)]
      /\ assessments' = assessments \o
           <<Assessment(sids[1], cids[1], 85, <<80, 90, 85, 85>>,
               <<"Strong safety awareness", "Good technical knowledge", "Clear communication">>,
               <<"Could demonstrate more advanced problem-solving">>,
               "Proceed to next round"),
             Assessment(sids[3], cids[3], 92, <<95, 95, 90, 88>>,
               <<"Excellent technical skills", "Outstanding safety knowledge",
                 "Professional communication">>,
               <<>>, "Proceed to next round - high priority")>>
      /\ Returns("createTestData", "none")
      /\ UNCHANGED <<schemaValidation, fetch>>

RosterInit ==
  /\ sessions = [s \in {AllocationOrder.sessions[i] : i \in 1..Len(AllocationOrder.sessions)}
                   |-> NoSession]
  /\ candidates =
       [c \in {AllocationOrder.candidates[i] : i \in 1..Len(AllocationOrder.candidates)}
          |-> NoCandidate]
  /\ assessments = <<>>
  /\ schemaValidation \in BOOLEAN
  /\ outcome = NoOutcome
  /\ fetch = FetchIdle
  /\ notifications = <<>>
  /\ hook = NoHook
  /\ clients = <<>>
  /\ scoreIn = NoScoreIn
  /\ scoreOut = NoScore

RosterNext ==
  \/ \E args \in RosterInputs :
       /\ FreeIds(candidates, AllocationOrder.candidates) # <<>>
       /\ createCandidate(Head(FreeIds(candidates, AllocationOrder.candidates)), args)
  \/ \E list \in SeqsUpTo(RosterInputs, 2), skipDuplicates \in BOOLEAN :
       bulkCreateCandidates(list, skipDuplicates)
  \/ createTestData

SpecRoster == RosterInit /\ [][RosterNext]_vars

\* C22: no two candidate documents have the same email, whatever sequence of
\* createCandidate, bulkCreateCandidates and createTestData has run.
C22_NoTwoCandidatesShareEmail ==
  \A c \in DOMAIN candidates, d \in DOMAIN candidates :
    candidates[c].exists /\ candidates[d].exists /\ candidates[c].email = candidates[d].email
      => c = d

(***************************************************************************)
(* SpecAmend: the session lifecycle and the automatic evaluations beside   *)
(* updateAssessment, by which a reviewer amends a stored assessment.       *)
(***************************************************************************)
AmendNext ==
  \/ \E cid \in SpecCandidates, args \in CandidateInputs : createCandidate(cid, args)
  \/ \E sid \in SpecSessions, cid \in SpecCandidates : createSession(sid, cid)
  \/ \E sid \in SpecSessions : startSession(sid)
  \/ \E sid \in SpecSessions, t \in TranscriptInputs : updateSessionData(sid, {t}, "undefined")
  \/ \E sid \in SpecSessions, t \in TranscriptInputs, e \in ElapsedInputs :
       completeSession(sid, "undefined", {t}, e)
  \/ \E sid \in SpecSessions, reason \in {"failed", "abandoned"}, e \in ElapsedInputs :
       failSession(sid, reason, e)
  \/ \E sid \in SpecSessions : triggerTranscriptAssessment(sid)
  \/ \E sid \in SpecSessions : evaluateSessionTranscripts(sid)
  \/ \E sid \in SpecSessions, cid \in SpecCandidates : calculateBasicScore(sid, cid)
  \/ \E assessmentId \in 1..MaxAssessments : updateAssessment(assessmentId, {50}, {FALSE}, "")
  \/ \E assessmentId \in 1..MaxAssessments : updateAssessment(assessmentId, {}, {}, "Call back")

SpecAmend == Init /\ [][AmendNext]_vars

\* the fields of an assessment that hold its result
ResultOf(assessment) ==
  [overallScore |-> assessment.overallScore, passed |-> assessment.passed,
   scores |-> assessment.scores, aiInsights |-> assessment.aiInsights]

\* C23: a step of any operation other than updateAssessment leaves the overall
\* score, the passed flag, the sub-scores and the insights of every assessment
\* that already exists as they were.
C23_OnlyUpdateAssessmentChangesResult ==
  [][outcome'.op # "updateAssessment"
       => /\ Len(assessments') >= Len(assessments)
          /\ \A i \in 1..Len(assessments) :
               ResultOf(assessments'[i]) = ResultOf(assessments[i])]_vars

\* a later evaluation ran for a session whose assessment a reviewer had amended
C23_Witness ==
  /\ outcome.op \in EvalOps \cup {"calculateBasicScore"}
  /\ Len(assessments) > 0
  /\ assessments[1].aiInsights.nextSteps = "Call back"

\* the operations that score by themselves
AutomaticOps ==
  EvalOps \cup {"calculateBasicScore", "createTranscriptBasedAssessment", "processVapiSession"}

Evaluable(sid) ==
  /\ sessions[sid].exists
  /\ candidates[sessions[sid].candidateId].exists
  /\ Len(FinalUserResponses(sessions[sid].transcripts)) > 0
  /\ BySession(sid) = {}

\* C25: triggerTranscriptAssessment or evaluateSessionTranscripts, called for a
\* session that can be evaluated, returns success, and right after the call
\* exactly one assessment refers to the session and its candidate's screening
\* status is passed or failed.
C25_EvaluationSucceeds ==
  [][(outcome'.op \in EvalOps /\ outcome'.id \in SessionIds /\ Evaluable(outcome'.id))
     => LET sid == outcome'.id
        IN  /\ ~outcome'.threw
            /\ outcome'.reason = "success"
            /\ Cardinality({i \in 1..Len(assessments') : assessments'[i].sessionId = sid}) = 1
            /\ candidates'[sessions[sid].candidateId].screeningStatus \in {"passed", "failed"}]_vars

\* an evaluation has just scored a session that had no assessment
C25_Witness ==
  /\ outcome.op \in EvalOps /\ outcome.reason = "success"
  /\ outcome.id \in SessionIds
  /\ Cardinality(BySession(outcome.id)) = 1
  /\ Len(FinalUserResponses(sessions[outcome.id].transcripts)) > 0
  /\ candidates[sessions[outcome.id].candidateId].screeningStatus \in {"passed", "failed"}

(***************************************************************************)
(* The browser: the hook useVapiClient (src/app/interview/page.tsx) and    *)
(* the VapiClient objects it creates (src/lib/vapi/client.ts).  JavaScript *)
(* runs a function to its next await in one step; what follows the await   *)
(* is a later step.  Of a VapiClient the fields vapi (set or null), state, *)
(* connectionStatus and sessionMetadata.status are kept, and pc tells      *)
(* whether a startSession call is suspended at await this.vapi.start().    *)
(***************************************************************************)
\* new VapiClient(options)
NewClient ==
  [vapi |-> FALSE, state |-> "idle",
   connectionStatus |-> [isConnected |-> FALSE, isConnecting |-> "undefined",
                         error |-> "undefined"],
   status |-> "active", pc |-> "idle"]

\* handleError with setState('error'); the onError handler is run by the caller
handleError(client, code) ==
  [client EXCEPT !.state = "error",
                 !.connectionStatus = [isConnected |-> FALSE, isConnecting |-> "undefined",
                                       error |-> code],
                 !.status = "failed"]

\* VapiClient.initialize has no await: the promise it returns is settled when
\* it returns, rejected when a key is missing
VapiClient_initialize(client, publicKey, assistantId) ==
  IF publicKey /\ assistantId
  THEN [client EXCEPT !.vapi = TRUE, !.state = "idle"]
  ELSE handleError(client, "INIT_FAILED")

\* every call starts an initialization
InFlightIgnored(h) == FALSE

\* if (initPromise.current)
InFlight(h) == h.initPromise # "null"

\* initialize() of the hook, up to await newClient.initialize()
useVapiClient_initialize(publicKey, assistantId) ==
  IF InFlight(hook)
  THEN /\ outcome' = [op |-> "initialize", id |-> "none", threw |-> FALSE,
                      reason |-> "in flight", arg |-> "none"]
       /\ UNCHANGED <<hook, clients, sessions, candidates, assessments, schemaValidation,
                      fetch, scoreIn, scoreOut, notifications>>
  ELSE LET ok == publicKey /\ assistantId
       IN  /\ Len(clients) < MaxClients
           /\ clients' = Append(clients, VapiClient_initialize(NewClient, publicKey, assistantId))
           /\ hook' = [hook EXCEPT
                         \* setError(null), then onError when initialize fails
                         !.error = IF ok THEN "null" ELSE "INIT_FAILED",
                         !.initPromise = "pending",
                         !.inFlight = @ \cup {[client |-> Len(clients) + 1, resolved |-> ok]}]
           /\ outcome' = [op |-> "initialize", id |-> "none", threw |-> FALSE,
                          reason |-> "started", arg |-> "none"]
           /\ UNCHANGED <<sessions, candidates, assessments, schemaValidation, fetch, scoreIn,
                          scoreOut, notifications>>

\* initialize() of the hook after the await: try, catch and finally
useVapiClient_initializeSettles ==
  \E f \in hook.inFlight :
    /\ hook' = [hook EXCEPT
                  !.client = IF f.resolved THEN f.client ELSE @,
                  !.isInitialized = f.resolved,
                  !.error = IF f.resolved THEN @ ELSE "INIT_FAILED",
                  !.initPromise = "null",
                  !.inFlight = @ \ {f}]
    /\ outcome' = [op |-> "initialize settles", id |-> "none", threw |-> ~f.resolved,
                   reason |-> IF f.resolved THEN "success" ELSE "INIT_FAILED", arg |-> "none"]
    /\ UNCHANGED <<clients, sessions, candidates, assessments, schemaValidation, fetch, scoreIn,
                   scoreOut, notifications>>

\* VapiClient.startSession, up to await this.vapi.start(), on the hook's client
VapiClient_startSession ==
  LET c == hook.client
  IN  /\ c # 0
      /\ clients[c].pc = "idle"
      /\ IF ~clients[c].vapi
         THEN /\ clients' = [clients EXCEPT ![c] = handleError(@, "SESSION_START_FAILED")]
              /\ hook' = [hook EXCEPT !.error = "SESSION_START_FAILED"]
              /\ outcome' = [op |-> "VapiClient.startSession", id |-> "none", threw |-> TRUE,
                             reason |-> "SESSION_START_FAILED", arg |-> "none"]
         ELSE /\ clients' = [clients EXCEPT
                               ![c].state = "connecting",
                               ![c].connectionStatus =
                                  [isConnected |-> FALSE, isConnecting |-> "true",
                                   error |-> "undefined"],
                               ![c].pc = "await start"]
              /\ hook' = hook
              /\ outcome' = [op |-> "VapiClient.startSession", id |-> "none", threw |-> FALSE,
                             reason |-> "await start", arg |-> "none"]
      /\ UNCHANGED <<sessions, candidates, assessments, schemaValidation, fetch, scoreIn,
                     scoreOut, notifications>>

\* VapiClient.startSession after the await: the call start resolved or rejected
VapiClient_startSessionResumes(resolved) ==
  LET c == hook.client
  IN  /\ c # 0
      /\ clients[c].pc = "await start"
      /\ IF resolved
         THEN /\ clients' = [clients EXCEPT
                               ![c].state = "connected",
                               ![c].connectionStatus =
                                  [isConnected |-> TRUE, isConnecting |-> "false",
                                   error |-> "undefined"],
                               ![c].status = "active",
                               ![c].pc = "idle"]
              /\ hook' = hook
         ELSE /\ clients' = [clients EXCEPT
                               ![c] = [handleError(@, "SESSION_START_FAILED") EXCEPT
                                         !.pc = "idle"]]
              /\ hook' = [hook EXCEPT !.error = "SESSION_START_FAILED"]
      /\ outcome' = [op |-> "VapiClient.startSession resumes", id |-> "none",
                     threw |-> ~resolved,
                     reason |-> IF resolved THEN "success" ELSE "SESSION_START_FAILED",
                     arg |-> "none"]
      /\ UNCHANGED <<sessions, candidates, assessments, schemaValidation, fetch, scoreIn,
                     scoreOut, notifications>>

\* the listeners of setupEventListeners, run when the SDK emits an event for a
\* call the client has started
VapiEvent(event) ==
  LET c == hook.client
  IN  /\ c # 0
      /\ clients[c].vapi
      /\ clients[c].state # "idle"
      /\ clients' = [clients EXCEPT ![c] =
           CASE event = "speech-start" -> [@ EXCEPT !.state = "speaking"]
             [] event = "speech-end" -> [@ EXCEPT !.state = "listening"]
             [] event = "call-start" ->
                  [@ EXCEPT !.state = "connected",
                            !.connectionStatus = [isConnected |-> TRUE, isConnecting |-> "false",
                                                  error |-> "undefined"]]
             [] event = "call-end" ->
                  [@ EXCEPT !.state = "disconnected",
                            !.connectionStatus = [isConnected |-> FALSE, isConnecting |-> "false",
                                                  error |-> "undefined"],
                            !.status = "completed"]
             [] event = "error" -> handleError(@, "VAPI_ERROR")]
      /\ hook' = [hook EXCEPT !.error = IF event = "error" THEN "VAPI_ERROR" ELSE @]
      /\ outcome' = [op |-> "event", id |-> "none", threw |-> FALSE, reason |-> "success",
                     arg |-> event]
      /\ UNCHANGED <<sessions, candidates, assessments, schemaValidation, fetch, scoreIn,
                     scoreOut, notifications>>

ClientNext ==
  \/ \E publicKey \in BOOLEAN, assistantId \in BOOLEAN :
       useVapiClient_initialize(publicKey, assistantId)
  \/ useVapiClient_initializeSettles
  \/ VapiClient_startSession
  \/ \E resolved \in BOOLEAN : VapiClient_startSessionResumes(resolved)
  \/ \E event \in {"speech-start", "speech-end", "call-start", "call-end", "error"} :
       VapiEvent(event)

SpecClient == Init /\ [][ClientNext]_vars

\* C26: an initialize() call made while an initialization is in flight returns
\* the promise in flight and creates no VapiClient; at no time are two
\* initializations in flight, and a VapiClient is created only when none is.
C26_OneInitializationInFlight ==
  [][/\ Cardinality(hook'.inFlight) <= 1
     /\ (outcome'.op = "initialize" /\ hook.inFlight # {})
          => /\ outcome'.reason = "in flight"
             /\ clients' = clients
             /\ hook' = hook
     /\ Len(clients') > Len(clients) => hook.inFlight = {}]_vars

\* a second initialize() call was made while the first was in flight
C26_Witness ==
  /\ outcome.op = "initialize" /\ outcome.reason = "in flight"
  /\ hook.inFlight # {}
  /\ Len(clients) = 1

\* C30: when startSession resumes after an error event was handled during its
\* await, the client keeps voice state error, isConnected false and session
\* metadata status failed.
C30_ResumeKeepsError ==
  [][\A c \in 1..Len(clients) :
       (clients[c].pc = "await start" /\ clients[c].state = "error"
          /\ clients'[c].pc = "idle")
         => /\ clients'[c].state = "error"
            /\ ~clients'[c].connectionStatus.isConnected
            /\ clients'[c].status = "failed"]_vars

(***************************************************************************)
(* SpecPair: two candidates and one session, and the mutations that take   *)
(* the candidate id as an argument beside the one that reads it from the   *)
(* session.  A client passes ids of documents it has read.                 *)
(***************************************************************************)
PairNext ==
  \/ \E cid \in CandidateIds, args \in CandidateInputs : createCandidate(cid, args)
  \/ \E sid \in SpecSessions, cid \in CandidateIds : createSession(sid, cid)
  \/ \E sid \in SpecSessions, t \in TranscriptInputs, e \in ElapsedInputs :
       completeSession(sid, "undefined", {t}, e)
  \/ \E sid \in SpecSessions : triggerTranscriptAssessment(sid)
  \/ \E sid \in SpecSessions, cid \in CandidateIds :
       /\ sessions[sid].exists /\ candidates[cid].exists
       /\ calculateBasicScore(sid, cid)
  \/ \E sid \in SpecSessions, cid \in CandidateIds, score \in ManualScores, passed \in BOOLEAN :
       /\ sessions[sid].exists /\ candidates[cid].exists
       /\ createAssessment(sid, cid, score, passed)
  \/ \E sid \in SpecSessions, cid \in CandidateIds, evaluation \in ClientEvaluations :
       /\ sessions[sid].exists /\ candidates[cid].exists
       /\ createTranscriptBasedAssessment(sid, cid, evaluation)

SpecPair == Init /\ [][PairNext]_vars

\* C27: the candidateId of every assessment is the candidateId of the session
\* the assessment refers to, and the operation that inserts an assessment
\* changes the screening status of no candidate but that session's.
C27_AssessmentCandidateIsSessionCandidate ==
  [][Len(assessments') = Len(assessments) + 1
       => /\ Inserted.candidateId = sessions[Inserted.sessionId].candidateId
          /\ \A cid \in CandidateIds :
               candidates'[cid].screeningStatus # candidates[cid].screeningStatus
                 => cid = sessions[Inserted.sessionId].candidateId]_vars

\* C28: when fetchVapiDataAndCreateAssessment ends in an error after the call
\* data was fetched, nothing it wrote is kept: no step of the call has changed
\* the session, and the failing step changes no session, assessment or candidate.
C28_FetchErrorLeavesNoWrite ==
  [][(outcome'.op = FetchOp /\ outcome'.threw /\ fetch.pc # "idle")
       => /\ ~fetch.wrote
          /\ sessions' = sessions
          /\ assessments' = assessments
          /\ candidates' = candidates]_vars

\* C29: in the vendor-data scorer a positive vendor signal gives passed = true
\* and a negative one passed = false, whatever the score computed without the
\* signal is; with no signal that score decides.
C29_VendorSignalDecides ==
  scoreOut.path = "vapi" =>
    LET signal == VendorSignal(scoreOut.successEvaluation)
    IN  /\ signal = "true" => scoreOut.base.passed
        /\ signal = "false" => ~scoreOut.base.passed
        /\ signal = "none" => scoreOut.base.passed = scoreOut.internal.passed

====
